---- MODULE Spec2Model ----
(***************************************************************************)
(* Verification model of the MCP server adapters of this repository:       *)
(*   - the synthetic data generator (mcp_server_datagen/synthetic.py) and  *)
(*     the DataGenServer handlers built on it (mcp_server_datagen/server.py)*)
(*   - the TimeServer of mcp_server_time/server.py                         *)
(*                                                                         *)
(* Python values are modelled as tagged records [t, n, s]: an int is       *)
(* [t |-> "int", n |-> k], a str is [t |-> "str", s |-> text].  Python     *)
(* dicts are functions whose DOMAIN is the set of present keys.  A call    *)
(* that draws random numbers is modelled by the set of all its outcomes.   *)
(***************************************************************************)
EXTENDS Integers, Sequences, FiniteSets, TLC

(***************************************************************************)
(* Bounds of the model.                                                    *)
(***************************************************************************)
\* largest row count of a call in the specifications that generate several
\* tables (SpecServer, SpecRelations)
MaxRows == 1
\* number of integers in every scaled-down ID range [min, min + IdSpan - 1]
\* of the default schemas
IdSpan == 2
\* longest `tables` array of a generate_custom_tables request
MaxTables == 3
\* largest row count of the single generate_synthetic_data call of SpecColumns
ColumnRows == 2
\* number of integers in the [min, max] ranges of the schemas of SpecColumns
ColumnSpan == 3

(***************************************************************************)
(* Python values and dicts.                                                *)
(***************************************************************************)
IntVal(k) == [t |-> "int", n |-> k, s |-> ""]
StrVal(x) == [t |-> "str", n |-> 0, s |-> x]
\* a float drawn by np.random.uniform; its magnitude is not tracked
FloatVal == [t |-> "float", n |-> 0, s |-> ""]
BoolVal(b) == [t |-> "bool", n |-> IF b THEN 1 ELSE 0, s |-> ""]

EmptyDict == [k \in {} |-> {}]
\* d.get(k, dflt)
Get(d, k, dflt) == IF k \in DOMAIN d THEN d[k] ELSE dflt
\* d[k] = v
Put(d, k, v) == [x \in (DOMAIN d) \cup {k} |-> IF x = k THEN v ELSE d[x]]
\* set(list)
Range(seq) == {seq[i] : i \in 1..Len(seq)}

\* s.endswith(suffix)
EndsWith(str, suffix) ==
    /\ Len(str) >= Len(suffix)
    /\ SubSeq(str, Len(str) - Len(suffix) + 1, Len(str)) = suffix
\* s.startswith(prefix)
StartsWith(str, prefix) ==
    /\ Len(str) >= Len(prefix)
    /\ SubSeq(str, 1, Len(prefix)) = prefix
\* s[:-1]
DropLast(str) == IF Len(str) = 0 THEN str ELSE SubSeq(str, 1, Len(str) - 1)

\* one decimal digit as text
Digit(d) == SubSeq("0123456789", d + 1, d + 1)
\* str(k) for an integer k: the decimal form, "-" in front of a negative one
RECURSIVE Decimal(_)
Decimal(k) ==
    IF k < 0 THEN "-" \o Decimal(0 - k)
    ELSE IF k < 10 THEN Digit(k)
    ELSE Decimal(k \div 10) \o Digit(k % 10)

\* int(str) for a string of decimal digits, -1 when it is not one
RECURSIVE DecimalValue(_)
DecimalValue(str) ==
    IF Len(str) = 0 THEN -1
    ELSE LET last == SubSeq(str, Len(str), Len(str))
             d == IF \E k \in 0..9 : Digit(k) = last
                  THEN CHOOSE k \in 0..9 : Digit(k) = last ELSE -1
         IN  IF d = -1 THEN -1
             ELSE IF Len(str) = 1 THEN d
             ELSE LET rest == DecimalValue(DropLast(str))
                  IN  IF rest = -1 THEN -1 ELSE 10 * rest + d

\* str(v) of a value, as an f-string or a numpy string array renders it
ToStr(v) == IF v.t = "str" THEN v.s
            ELSE IF v.t = "int" THEN Decimal(v.n)
            ELSE IF v.t = "bool" THEN (IF v.n = 1 THEN "True" ELSE "False")
            ELSE "0.5"

(***************************************************************************)
(* SyntheticDataGenerator._generate_unique_id                              *)
(***************************************************************************)
max_attempts == 100

\* f"{prefix}{id_val}" when the prefix is non-empty, the bare integer otherwise
MakeId(prefix, k) == IF prefix # "" THEN StrVal(prefix \o Decimal(k)) ELSE IntVal(k)

\* a mutation of RandInt: the upper end is included
RandInt_inclusive(low, high) == low .. high
\* np.random.randint(low, high): the integers low .. high - 1
RandInt(low, high) == low .. (high - 1)

\* the values one draw of the loop body can produce: randint(min, max + 1)
DrawnIds(spec) ==
    {MakeId(Get(spec, "prefix", ""), k) :
        k \in RandInt(Get(spec, "min", 1), Get(spec, "max", 1000000) + 1)}

\* a mutation of GenerateUniqueId: the drawn value is returned without the
\* check against the recorded IDs
GenerateUniqueId_unchecked(ids, table_name, spec) ==
    IF Get(spec, "type", "integer") \notin {"integer", "int"}
    THEN {[exc |-> "ValueError", val |-> IntVal(0), ids |-> ids]}
    ELSE IF DrawnIds(spec) = {}
    THEN {[exc |-> "ValueError", val |-> IntVal(0), ids |-> ids]}
    ELSE LET ids1 == IF table_name \in DOMAIN ids THEN ids
                     ELSE Put(ids, table_name, {})
         IN  {[exc |-> "", val |-> v,
               ids |-> Put(ids1, table_name, ids1[table_name] \cup {v})] :
                  v \in DrawnIds(spec)}

\* The retry loop (while attempts < max_attempts).  Every attempt draws from
\* the same range and only a draw that is already recorded leads to another
\* attempt, so the loop returns any value of the range that is not recorded
\* yet (recording it), and raises after max_attempts draws that were all
\* recorded ones.  Outcomes are records [exc, val, ids]; exc = "" is a return.
GenerateUniqueId(ids, table_name, spec) ==
    IF max_attempts <= 0
    THEN {[exc |-> "ValueError", val |-> IntVal(0), ids |-> ids]}
    ELSE IF Get(spec, "type", "integer") \notin {"integer", "int"}
    THEN {[exc |-> "ValueError", val |-> IntVal(0), ids |-> ids]}
    ELSE IF DrawnIds(spec) = {}
    THEN \* randint raises ValueError: low >= high
         {[exc |-> "ValueError", val |-> IntVal(0), ids |-> ids]}
    ELSE LET ids1 == IF table_name \in DOMAIN ids THEN ids
                     ELSE Put(ids, table_name, {})
             fresh == DrawnIds(spec) \ ids1[table_name]
             taken == DrawnIds(spec) \cap ids1[table_name]
         IN  {[exc |-> "", val |-> v,
               ids |-> Put(ids1, table_name, ids1[table_name] \cup {v})] :
                  v \in fresh}
             \cup
             (IF taken = {} THEN {}
              ELSE {[exc |-> "ValueError", val |-> IntVal(0), ids |-> ids1]})

\* [self._generate_unique_id(table, spec) for _ in range(rows)]: outcomes
\* [exc, vals, ids]; an exception leaves the IDs recorded so far in place.
RECURSIVE UniqueIdList(_, _, _, _)
UniqueIdList(ids, table_name, spec, k) ==
    IF k <= 0 THEN {[exc |-> "", vals |-> <<>>, ids |-> ids]}
    ELSE UNION {
        IF o.exc # ""
        THEN {[exc |-> o.exc, vals |-> <<>>, ids |-> o.ids]}
        ELSE {[exc |-> r.exc, vals |-> <<o.val>> \o r.vals, ids |-> r.ids] :
                 r \in UniqueIdList(o.ids, table_name, spec, k - 1)}
        : o \in GenerateUniqueId(ids, table_name, spec)}

(***************************************************************************)
(* The libraries behind the generators: which attribute names exist.       *)
(***************************************************************************)
\* methods of the Faker instance the schemas of this repository name
FakerMethods == {"text", "name", "first_name", "last_name", "email",
                 "phone_number", "address", "company", "date",
                 "date_time_this_year", "date_this_year", "date_of_birth"}
\* Faker methods that return a date or datetime object instead of a str
FakerDateMethods == {"date_time_this_year", "date_this_year", "date_of_birth"}
\* attribute paths of the mimesis Generic instance that resolve
MimesisPaths == {"mimesis.person.full_name", "mimesis.text.text"}
\* functions of np.random that can be called without arguments
NumpyNoArgFunctions == {"random_sample", "rand", "random"}

\* a date or datetime object, before isoformat()
DateVal == [t |-> "date", n |-> 0, s |-> ""]

\* numpy scalars, as np.random.choice returns them
NpIntVal(k) == [t |-> "np.int64", n |-> k, s |-> ""]
NpStrVal(x) == [t |-> "np.str_", n |-> 0, s |-> x]

\* SyntheticDataGenerator._ensure_json_serializable
EnsureJsonSerializable(v) ==
    IF v.t = "np.int64" THEN IntVal(v.n)          \* value.item()
    ELSE IF v.t = "date" THEN StrVal("2024-01-01") \* value.isoformat()
    ELSE IF v.t = "np.str_" THEN StrVal(v.s)      \* str(value)
    ELSE v

\* SyntheticDataGenerator._map_faker_type: outcomes [exc, val]
MapFakerType(data_type) ==
    LET method_map == [text |-> "text", string |-> "text",
                       first_name |-> "first_name", last_name |-> "last_name",
                       email |-> "email", phone |-> "phone_number",
                       address |-> "address", company |-> "company",
                       date |-> "date",
                       date_time_this_year |-> "date_time_this_year",
                       date_this_year |-> "date_this_year"]
        method == IF StartsWith(data_type, "faker.")
                  THEN SubSeq(data_type, Len("faker.") + 1, Len(data_type))
                  ELSE IF data_type = "string" THEN "text"
                  ELSE Get(method_map, data_type, data_type)
    IN  IF method \in FakerMethods
        THEN {[exc |-> "",
               val |-> IF method \in FakerDateMethods THEN DateVal
                       ELSE StrVal("<" \o method \o ">")]}
        ELSE IF data_type = "string"
        THEN {[exc |-> "", val |-> StrVal("<text>")]}
        ELSE {[exc |-> "ValueError", val |-> IntVal(0)]}

\* SyntheticDataGenerator._generate_mimesis_value: outcomes [exc, val]
GenerateMimesisValue(generator) ==
    IF generator \in MimesisPaths
    THEN {[exc |-> "", val |-> StrVal("<" \o generator \o ">")]}
    ELSE {[exc |-> "ValueError", val |-> IntVal(0)]}

\* np.random.choice(list): numpy turns the list into an array first, so a
\* list that holds a str holds only strs afterwards.  Outcomes [exc, val].
RandomChoice(S) ==
    IF S = {} THEN {[exc |-> "ValueError", val |-> IntVal(0)]}
    ELSE IF \E v \in S : v.t = "str"
    THEN {[exc |-> "", val |-> NpStrVal(ToStr(v))] : v \in S}
    ELSE {[exc |-> "", val |-> NpIntVal(v.n)] : v \in S}

(***************************************************************************)
(* SyntheticDataGenerator._extract_parent_table                            *)
(***************************************************************************)
\* [exc, table]
ExtractParentTable(col_name) ==
    IF col_name = "policy_id" THEN [exc |-> "", table |-> "policies"]
    ELSE IF col_name = "customer_id" THEN [exc |-> "", table |-> "customers"]
    ELSE IF col_name = "claim_id" THEN [exc |-> "", table |-> "claims"]
    ELSE IF EndsWith(col_name, "_id")
    THEN LET table_name == SubSeq(col_name, 1, Len(col_name) - 3)
         IN  [exc |-> "",
              table |-> IF EndsWith(table_name, "s") THEN table_name
                        ELSE table_name \o "s"]
    ELSE [exc |-> "ValueError", table |-> ""]

(***************************************************************************)
(* SyntheticDataGenerator._map_type_to_generator.  The callable it returns *)
(* is a record [exc, kind, lo, hi, str, cats, spec]; exc # "" means the    *)
(* mapping itself raised.                                                  *)
(***************************************************************************)
Gen(kind, lo, hi, str, cats, spec) ==
    [exc |-> "", kind |-> kind, lo |-> lo, hi |-> hi, str |-> str,
     cats |-> cats, spec |-> spec]
GenRaise(exc) ==
    [exc |-> exc, kind |-> "raise", lo |-> 0, hi |-> 0, str |-> "",
     cats |-> <<>>, spec |-> EmptyDict]

\* a mutation of IntegerGenerator: the lower bound is left out, as in
\* np.random.randint(max_val)
IntegerGenerator_no_min(spec) ==
    Gen("randint", 0, Get(spec, "max", 100), "", <<>>, spec)
\* lambda: int(... np.random.randint(min_val, max_val)) of an integer column
IntegerGenerator(spec) ==
    Gen("randint", Get(spec, "min", 0), Get(spec, "max", 100), "", <<>>, spec)

MapTypeToGenerator(col_name, spec, current_table) ==
    IF "type" \notin DOMAIN spec THEN GenRaise("KeyError")
    ELSE
    LET data_type == spec["type"]
        generator == Get(spec, "generator", "")
    IN
    IF generator # ""
    THEN IF StartsWith(generator, "faker.")
         THEN Gen("faker", 0, 0, generator, <<>>, spec)
         ELSE IF StartsWith(generator, "mimesis.")
         THEN Gen("mimesis", 0, 0, generator, <<>>, spec)
         ELSE IF StartsWith(generator, "numpy.")
         THEN Gen("numpyfn", 0, 0,
                  SubSeq(generator, Len("numpy.") + 1, Len(generator)),
                  <<>>, spec)
         ELSE IF generator = "faker"
         THEN Gen("faker", 0, 0, data_type, <<>>, spec)
         ELSE IF generator = "numpy"
         THEN IF data_type \in {"int", "integer"}
              THEN IntegerGenerator(spec)
              ELSE IF data_type = "float"
              THEN Gen("uniform", 0, 0, "", <<>>, spec)
              ELSE IF data_type = "boolean"
              THEN Gen("bool", 0, 0, "", <<>>, spec)
              ELSE GenRaise("ValueError")
         ELSE GenRaise("ValueError")
    ELSE IF "correlated" \in DOMAIN spec
    THEN LET p == ExtractParentTable(current_table)
         IN  IF p.exc # "" THEN GenRaise(p.exc)
             ELSE Gen("correlated", 0, 0, p.table, <<>>, spec)
    ELSE IF EndsWith(col_name, "_id") \/ col_name = "id"
    THEN Gen("unique", 0, 0, current_table, <<>>, spec)
    ELSE IF data_type = "string"
    THEN IF "prefix" \in DOMAIN spec
         THEN IF "categories" \in DOMAIN spec
              THEN Gen("choice", 0, 0, spec["prefix"], spec["categories"], spec)
              ELSE Gen("prefixtext", 0, 0, spec["prefix"], <<>>, spec)
         ELSE IF "categories" \in DOMAIN spec
         THEN Gen("choice", 0, 0, "", spec["categories"], spec)
         ELSE Gen("faker", 0, 0, "text", <<>>, spec)
    ELSE IF data_type \in {"int", "integer"}
    THEN IntegerGenerator(spec)
    ELSE IF data_type = "float" THEN Gen("uniform", 0, 0, "", <<>>, spec)
    ELSE IF data_type = "boolean" THEN Gen("bool", 0, 0, "", <<>>, spec)
    ELSE IF data_type = "category"
    THEN Gen("choice", 0, 0, "", Get(spec, "categories", <<>>), spec)
    ELSE IF data_type = "datetime"
    THEN Gen("faker", 0, 0, "date_time_this_year", <<>>, spec)
    ELSE IF data_type = "date" THEN Gen("faker", 0, 0, "date", <<>>, spec)
    ELSE GenRaise("ValueError")

(***************************************************************************)
(* Calling a generator.  Outcomes are records [exc, val, ids].             *)
(***************************************************************************)
\* self.current_table is set once, in __init__, and never assigned again
current_table == ""

Raised(exc, ids) == [exc |-> exc, val |-> IntVal(0), ids |-> ids]
Returned(v, ids) == [exc |-> "", val |-> v, ids |-> ids]

\* a mutation of GenerateCorrelatedId: the ID is picked among the recorded
\* IDs of all tables instead of those of the parent table
GenerateCorrelatedId_any_table(ids, parent_table) ==
    IF Get(ids, parent_table, {}) = {}
    THEN {Raised("ValueError", ids)}
    ELSE {[exc |-> o.exc, val |-> o.val, ids |-> ids] :
             o \in RandomChoice(UNION {ids[t] : t \in DOMAIN ids})}
\* SyntheticDataGenerator._generate_correlated_id
GenerateCorrelatedId(ids, parent_table) ==
    IF Get(ids, parent_table, {}) = {}
    THEN {Raised("ValueError", ids)}
    ELSE {[exc |-> o.exc, val |-> o.val, ids |-> ids] :
             o \in RandomChoice(ids[parent_table])}

\* generator(): one call of the callable _map_type_to_generator returned
CallGenerator(g, ids) ==
    CASE g.kind = "faker" ->
            {[exc |-> o.exc, val |-> o.val, ids |-> ids] :
                o \in MapFakerType(g.str)}
      [] g.kind = "mimesis" ->
            {[exc |-> o.exc, val |-> o.val, ids |-> ids] :
                o \in GenerateMimesisValue(g.str)}
      [] g.kind = "numpyfn" ->
            IF g.str \in NumpyNoArgFunctions
            THEN {Returned(EnsureJsonSerializable(FloatVal), ids)}
            ELSE {Raised("AttributeError", ids)}
      [] g.kind = "randint" ->
            IF RandInt(g.lo, g.hi) = {}
            THEN {Raised("ValueError", ids)}
            ELSE {Returned(EnsureJsonSerializable(IntVal(k)), ids) :
                     k \in RandInt(g.lo, g.hi)}
      [] g.kind = "uniform" -> {Returned(EnsureJsonSerializable(FloatVal), ids)}
      [] g.kind = "bool" -> {Returned(BoolVal(b), ids) : b \in BOOLEAN}
      [] g.kind = "correlated" -> GenerateCorrelatedId(ids, g.str)
      [] g.kind = "unique" -> GenerateUniqueId(ids, g.str, g.spec)
      [] g.kind = "choice" ->
            IF Len(g.cats) = 0
            THEN {Raised("ValueError", ids)}
            ELSE {Returned(StrVal(g.str \o g.cats[i]), ids) :
                     i \in 1..Len(g.cats)}
      [] g.kind = "prefixtext" ->
            {[exc |-> o.exc,
              val |-> IF o.exc = "" THEN StrVal(g.str \o ToStr(o.val))
                      ELSE o.val,
              ids |-> ids] : o \in MapFakerType("text")}
      [] OTHER -> {Raised(g.exc, ids)}

\* [f(generator()) for _ in range(rows)]: outcomes [exc, vals, ids]
RECURSIVE CallList(_, _, _)
CallList(g, ids, k) ==
    IF k <= 0 THEN {[exc |-> "", vals |-> <<>>, ids |-> ids]}
    ELSE UNION {
        IF o.exc # ""
        THEN {[exc |-> o.exc, vals |-> <<>>, ids |-> o.ids]}
        ELSE {[exc |-> r.exc, vals |-> <<o.val>> \o r.vals, ids |-> r.ids] :
                 r \in CallList(g, o.ids, k - 1)}
        : o \in CallGenerator(g, ids)}

\* [self._generate_correlated_id(parent) for _ in range(rows)]
RECURSIVE CorrelatedIdList(_, _, _)
CorrelatedIdList(ids, parent_table, k) ==
    IF k <= 0 THEN {[exc |-> "", vals |-> <<>>, ids |-> ids]}
    ELSE UNION {
        IF o.exc # ""
        THEN {[exc |-> o.exc, vals |-> <<>>, ids |-> o.ids]}
        ELSE {[exc |-> r.exc, vals |-> <<o.val>> \o r.vals, ids |-> r.ids] :
                 r \in CorrelatedIdList(o.ids, parent_table, k - 1)}
        : o \in GenerateCorrelatedId(ids, parent_table)}

(***************************************************************************)
(* A schema is an ordered dict: cols is the key order, spec the mapping.   *)
(***************************************************************************)
Schema(cols, spec) == [cols |-> cols, spec |-> spec]
HasColumn(schema, c) == c \in DOMAIN schema.spec

\* a mutation of ParentHasIds: the parent IDs are generated again every time
ParentHasIds_never(ids, parent_table) == FALSE
\* `if not self._generated_ids.get(parent_table)` does not hold
ParentHasIds(ids, parent_table) == Get(ids, parent_table, {}) # {}

\* SyntheticDataGenerator._ensure_parent_table_ids: outcomes [exc, ids]
EnsureParentTableIds(ids, default_schemas, parent_table, rows) ==
    IF ParentHasIds(ids, parent_table)
    THEN {[exc |-> "", ids |-> ids]}
    ELSE IF parent_table \notin DOMAIN default_schemas
    THEN {[exc |-> "ValueError", ids |-> ids]}
    ELSE
    LET parent_schema == default_schemas[parent_table]
        id_field_candidates ==
            << DropLast(parent_table) \o "_id",
               parent_table \o "_id",
               IF parent_table = "policies" THEN "policy_id" ELSE "",
               IF parent_table = "customers" THEN "customer_id" ELSE "",
               IF parent_table = "claims" THEN "claim_id" ELSE "" >>
        found == {i \in 1..Len(id_field_candidates) :
                     /\ id_field_candidates[i] # ""
                     /\ HasColumn(parent_schema, id_field_candidates[i])}
    IN
    IF found = {} THEN {[exc |-> "ValueError", ids |-> ids]}
    ELSE
    LET first == CHOOSE i \in found : \A j \in found : i <= j
        id_field == id_field_candidates[first]
        generator == MapTypeToGenerator(id_field, parent_schema.spec[id_field],
                                        current_table)
    IN
    IF generator.exc # "" THEN {[exc |-> generator.exc, ids |-> ids]}
    ELSE {[exc |-> o.exc,
           ids |-> IF o.exc = "" THEN Put(o.ids, parent_table, Range(o.vals))
                   ELSE o.ids] :
             o \in CallList(generator, ids, rows)}

(***************************************************************************)
(* SyntheticDataGenerator.generate_synthetic_data.                         *)
(* A run in progress is a record [exc, data, ids]: data is the dict built  *)
(* so far, ids is self._generated_ids, exc # "" once an exception left.    *)
(***************************************************************************)
Running(data, ids) == [exc |-> "", data |-> data, ids |-> ids]
Failed(exc, data, ids) == [exc |-> exc, data |-> data, ids |-> ids]

\* col_spec.get("correlated") is truthy
IsCorrelated(col_spec) == Get(col_spec, "correlated", FALSE) = TRUE

\* a mutation of ParentIdBlock: one ID too few, as with range(rows - 1)
ParentIdBlock_one_short(ids, default_schemas, table_name, schema, rows) ==
    LET id_field == DropLast(table_name) \o "_id"
    IN  IF table_name \in DOMAIN default_schemas /\ HasColumn(schema, id_field)
        THEN {IF o.exc # "" THEN Failed(o.exc, EmptyDict, o.ids)
              ELSE Running(Put(EmptyDict, id_field, o.vals),
                           Put(o.ids, table_name, Range(o.vals))) :
                 o \in UniqueIdList(ids, table_name, schema.spec[id_field],
                                    rows - 1)}
        ELSE {Running(EmptyDict, ids)}

\* "If this is a parent table, ensure we generate IDs first"
ParentIdBlock(ids, default_schemas, table_name, schema, rows) ==
    LET id_field == DropLast(table_name) \o "_id"
    IN  IF table_name \in DOMAIN default_schemas /\ HasColumn(schema, id_field)
        THEN {IF o.exc # "" THEN Failed(o.exc, EmptyDict, o.ids)
              ELSE Running(Put(EmptyDict, id_field, o.vals),
                           Put(o.ids, table_name, Range(o.vals))) :
                 o \in UniqueIdList(ids, table_name, schema.spec[id_field], rows)}
        ELSE {Running(EmptyDict, ids)}

\* one column of the first pass
FirstPassColumn(st, table_name, col_name, col_spec, rows) ==
    IF st.exc # "" THEN {st}
    ELSE IF IsCorrelated(col_spec) \/ col_name \in DOMAIN st.data THEN {st}
    ELSE IF EndsWith(col_name, "_id")
    THEN {IF o.exc # "" THEN Failed(o.exc, st.data, o.ids)
          ELSE Running(Put(st.data, col_name, o.vals), o.ids) :
             o \in UniqueIdList(st.ids, table_name, col_spec, rows)}
    ELSE LET generator == MapTypeToGenerator(col_name, col_spec, current_table)
         IN  IF generator.exc # ""
             THEN {Failed(generator.exc, st.data, st.ids)}
             ELSE {IF o.exc # "" THEN Failed(o.exc, st.data, o.ids)
                   ELSE Running(
                          Put(st.data, col_name,
                              [i \in 1..Len(o.vals) |->
                                  EnsureJsonSerializable(o.vals[i])]),
                          o.ids) :
                      o \in CallList(generator, st.ids, rows)}

\* "First pass: Generate non-correlated fields", columns i .. Len(cols)
RECURSIVE FirstPass(_, _, _, _, _)
FirstPass(sts, table_name, schema, rows, i) ==
    IF i > Len(schema.cols) THEN sts
    ELSE FirstPass(
            UNION {FirstPassColumn(st, table_name, schema.cols[i],
                                   schema.spec[schema.cols[i]], rows) :
                      st \in sts},
            table_name, schema, rows, i + 1)

\* one column of the second pass
SecondPassColumn(st, default_schemas, col_name, col_spec, rows) ==
    IF st.exc # "" THEN {st}
    ELSE IF ~IsCorrelated(col_spec) THEN {st}
    ELSE LET p == ExtractParentTable(col_name)
         IN  IF p.exc # "" THEN {Failed(p.exc, st.data, st.ids)}
             ELSE UNION {
                    IF e.exc # "" THEN {Failed(e.exc, st.data, e.ids)}
                    ELSE {IF o.exc # "" THEN Failed(o.exc, st.data, o.ids)
                          ELSE Running(Put(st.data, col_name, o.vals), o.ids) :
                             o \in CorrelatedIdList(e.ids, p.table, rows)}
                    : e \in EnsureParentTableIds(st.ids, default_schemas,
                                                 p.table, rows)}

\* "Second pass: Generate correlated fields", columns i .. Len(cols)
RECURSIVE SecondPass(_, _, _, _, _)
SecondPass(sts, default_schemas, schema, rows, i) ==
    IF i > Len(schema.cols) THEN sts
    ELSE SecondPass(
            UNION {SecondPassColumn(st, default_schemas, schema.cols[i],
                                    schema.spec[schema.cols[i]], rows) :
                      st \in sts},
            default_schemas, schema, rows, i + 1)

\* "Ensure all numpy types are converted to native Python types"
SerializeAll(st) ==
    IF st.exc # "" THEN st
    ELSE Running([c \in DOMAIN st.data |->
                     [i \in 1..Len(st.data[c]) |->
                         EnsureJsonSerializable(st.data[c][i])]],
                 st.ids)

\* the whole call: the set of its outcomes [exc, data, ids]
GenerateSyntheticData(ids, default_schemas, table_name, schema, rows) ==
    {SerializeAll(st) :
        st \in SecondPass(
                  FirstPass(ParentIdBlock(ids, default_schemas, table_name,
                                          schema, rows),
                            table_name, schema, rows, 1),
                  default_schemas, schema, rows, 1)}

(***************************************************************************)
(* DataGenServer.default_schemas (server.py), restricted to the ID column, *)
(* the correlated column and one Faker column of every table; the other    *)
(* columns are generated independently of self._generated_ids.  The upper  *)
(* end of every ID range is scaled down to min + IdSpan - 1.               *)
(***************************************************************************)
ServerCustomersSchema ==
    Schema(<<"customer_id", "first_name">>,
           [customer_id |-> [type |-> "int", generator |-> "numpy",
                             min |-> 10000, max |-> 10000 + IdSpan - 1],
            first_name |-> [type |-> "first_name", generator |-> "faker"]])

ServerPoliciesSchema ==
    Schema(<<"policy_id", "customer_id", "start_date">>,
           [policy_id |-> [type |-> "integer", generator |-> "numpy",
                           min |-> 100000, max |-> 100000 + IdSpan - 1,
                           prefix |-> "POL-2024-"],
            customer_id |-> [type |-> "int", min |-> 10000,
                             max |-> 10000 + IdSpan - 1,
                             correlated |-> TRUE],
            start_date |-> [type |-> "date_this_year", generator |-> "faker"]])

ServerClaimsSchema ==
    Schema(<<"claim_id", "policy_id", "date_filed">>,
           [claim_id |-> [type |-> "int", min |-> 100000,
                          max |-> 100000 + IdSpan - 1],
            policy_id |-> [type |-> "integer", generator |-> "numpy",
                           min |-> 100000, max |-> 100000 + IdSpan - 1,
                           prefix |-> "POL-2024-", correlated |-> TRUE],
            date_filed |-> [type |-> "date_this_year", generator |-> "faker"]])

ServerDefaultSchemas ==
    [customers |-> ServerCustomersSchema,
     policies |-> ServerPoliciesSchema,
     claims |-> ServerClaimsSchema]

\* a custom schema a generate_custom_tables request can carry in `schemas`
OrdersSchema ==
    Schema(<<"item">>, [item |-> [type |-> "text", generator |-> "faker"]])

(***************************************************************************)
(* State.                                                                  *)
(***************************************************************************)
VARIABLES
    generated_ids,    \* SyntheticDataGenerator._generated_ids
    default_schemas,  \* SyntheticDataGenerator.default_schemas
    pc,               \* position of the running tool call: "idle" between
                      \* calls, "tables" / "insurance" inside the handler's
                      \* loop, "done" when the handler has returned or raised
    pending,          \* ordered_tables still to be generated by the handler
    rows_arg,         \* `rows` of the running handler
    schemas,          \* `schemas` of the running handler
    result,           \* `result` of the running handler
    request,          \* the running tool call: its tool name, its `rows`
                      \* and the listed tables that have no schema at all
    returned,         \* what the handler returned or raised
    generated,        \* tables generated by the last tool call, in order
    call,             \* arguments of the last direct generate_synthetic_data
                      \* call: [table, schema, rows]
    ret,              \* its outcome: [exc, data]
    query,            \* arguments of the last TimeServer call, with the
                      \* instant datetime.now() read during it
    answer,           \* its outcome: [exc, message, result]
    repo,             \* the git repository: [commits, refs, head, index, work]
    git_call,         \* the last git operation, its arguments and the
                      \* repository it was given
    git_ret,          \* its outcome: [exc, text]
    database,         \* the SQLite file: table name -> [columns, rows]
    insights,         \* SqliteDatabase.insights
    notifications,    \* the resource-updated notifications sent so far
    sql_call,         \* the last request to the SQLite server
    sql_ret,          \* its outcome: [exc, text, executed]
    issue_arg,        \* the argument of the last extract_issue_id call
    issue_ret,        \* its outcome: [exc, message, value]
    ignore_robots_txt, \* the option the fetch server was started with
    fetch_pc,         \* position of the running fetch handler
    fetch_call,       \* the running request: [handler, url]
    http_log,         \* the URLs requested during it, in order
    robots_response,  \* the answer to its robots.txt request
    fetch_ret,        \* its outcome: [exc, text]
    served,           \* the running call of serve.call_tool and its outcome:
                      \* [name, arguments, exc, text]
    notes,            \* the notes table of notes.db: name -> content
    list_changed,     \* the resource-list-changed notifications sent so far
    note_call,        \* the last call of the notes server's tool handler
                      \* and the table and notification count it started with
    note_ret,         \* its outcome: [exc, message, text]
    uid_call,         \* the running _generate_unique_id call: [table, spec]
                      \* and the IDs recorded when it began
    attempts,         \* its local variable attempts
    draws,            \* the np.random.randint calls it has made
    uid_ret           \* its outcome: [exc, val]

vars == <<generated_ids, default_schemas, pc, pending, rows_arg, schemas,
          result, request, returned, generated, call, ret,
          query, answer, repo, git_call, git_ret,
          database, insights, notifications, sql_call, sql_ret,
          issue_arg, issue_ret, ignore_robots_txt, fetch_pc, fetch_call,
          http_log, robots_response, fetch_ret, served,
          notes, list_changed, note_call, note_ret,
          uid_call, attempts, draws, uid_ret>>

\* the state of a tool call of the DataGenServer
handler_vars == <<pc, pending, rows_arg, schemas, request, returned>>
\* the state of a caller that uses the generator directly
direct_vars == <<call, ret>>
\* the state of a caller of the TimeServer
time_vars == <<query, answer>>
\* everything of the data generator
datagen_vars == <<generated_ids, default_schemas, pc, pending, rows_arg,
                  schemas, result, request, returned, generated,
                  call, ret, served>>

\* the state of the git server and its caller
git_vars == <<repo, git_call, git_ret>>
\* the servers other than the data generator and the time server
\* the state of the SQLite server and its client
sqlite_vars == <<database, insights, notifications, sql_call, sql_ret>>
\* the state of a caller of extract_issue_id
sentry_vars == <<issue_arg, issue_ret>>
\* the state of the fetch server and the requests it has made
fetch_vars == <<ignore_robots_txt, fetch_pc, fetch_call, http_log,
                robots_response, fetch_ret>>
\* the state of the notes server and its client
notes_vars == <<notes, list_changed, note_call, note_ret>>
\* the state of one _generate_unique_id call
unique_id_vars == <<uid_call, attempts, draws, uid_ret>>
tools_vars == <<git_vars, sqlite_vars, sentry_vars, fetch_vars, notes_vars,
                unique_id_vars>>

\* git.Repo.init: no commit, no branch yet, HEAD on the unborn default
\* branch, nothing staged, no file.  A tree is the content of test.txt,
\* 0 when the file is absent.
EmptyRepo ==
    [commits |-> <<>>, refs |-> EmptyDict, head |-> "master",
     index |-> 0, work |-> 0]
NoGitCall == [op |-> ""]
NoGitRet == [exc |-> "none", text |-> ""]
NoSqlCall == [op |-> ""]
NoSqlRet == [exc |-> "none", text |-> "", executed |-> <<>>]
NoIssueRet == [exc |-> "none", message |-> "", value |-> ""]
NoFetchCall == [handler |-> "", url |-> ""]
NoResponse == [error |-> "", status |-> 0, robots |-> <<>>]
NoFetchRet == [exc |-> "none", text |-> ""]
IdleGit ==
    /\ repo = EmptyRepo
    /\ git_call = NoGitCall
    /\ git_ret = NoGitRet
IdleSqlite ==
    /\ database = EmptyDict
    /\ insights = <<>>
    /\ notifications = <<>>
    /\ sql_call = NoSqlCall
    /\ sql_ret = NoSqlRet
IdleSentry ==
    /\ issue_arg = ""
    /\ issue_ret = NoIssueRet
\* serve(custom_user_agent, ignore_robots_txt) before the first request
IdleFetch(ignore) ==
    /\ ignore_robots_txt = ignore
    /\ fetch_pc = "idle"
    /\ fetch_call = NoFetchCall
    /\ http_log = <<>>
    /\ robots_response = NoResponse
    /\ fetch_ret = NoFetchRet
NoNoteCall == [name |-> ""]
NoNoteRet == [exc |-> "none", message |-> "", text |-> ""]
\* McpServer.__init__ on a new notes.db: _init_database adds the example note
IdleNotes ==
    /\ notes = [example |-> "This is an example note."]
    /\ list_changed = 0
    /\ note_call = NoNoteCall
    /\ note_ret = NoNoteRet
NoUidCall == [table |-> ""]
NoUidRet == [exc |-> "none", val |-> [t |-> "int", n |-> 0, s |-> ""]]
IdleUniqueId ==
    /\ uid_call = NoUidCall
    /\ attempts = 0
    /\ draws = 0
    /\ uid_ret = NoUidRet
IdleTools ==
    /\ IdleGit /\ IdleSqlite /\ IdleSentry /\ IdleFetch(FALSE)
    /\ IdleNotes /\ IdleUniqueId

NoQuery == [tool |-> ""]
NoAnswer == [exc |-> "none", message |-> ""]

NoCall == [table |-> "", schema |-> Schema(<<>>, EmptyDict), rows |-> 0]
NoRet == [exc |-> "none", data |-> EmptyDict]

\* no call of serve.call_tool is in progress
NoServed ==
    [name |-> "", arguments |-> EmptyDict, exc |-> "none", text |-> ""]

NoRequest == [tool |-> "", rows |-> 0, unknown |-> {}]
\* the listed tables with neither a custom schema nor a default schema
UnknownTables(tables, custom_schemas) ==
    {tables[i] : i \in 1..Len(tables)}
        \ ((DOMAIN custom_schemas) \cup {"customers", "policies", "claims"})
NoReturn == [exc |-> "none", tables |-> EmptyDict]

\* DataGenServer.__init__ : a new generator that is given the server's schemas
InitServer ==
    /\ generated_ids = EmptyDict
    /\ default_schemas = ServerDefaultSchemas
    /\ pc = "idle"
    /\ pending = <<>>
    /\ rows_arg = 0
    /\ schemas = EmptyDict
    /\ result = EmptyDict
    /\ request = NoRequest
    /\ returned = NoReturn
    /\ generated = <<>>
    /\ call = NoCall
    /\ ret = NoRet
    /\ query = NoQuery
    /\ answer = NoAnswer
    /\ served = NoServed
    /\ IdleTools

(***************************************************************************)
(* DataGenServer.handle_generate_tables                                    *)
(***************************************************************************)
table_order == <<"customers", "policies", "claims">>

\* table_order.index(x) if x in table_order else len(table_order), 0-based
OrderKey(x) ==
    IF \E i \in 1..Len(table_order) : table_order[i] = x
    THEN (CHOOSE i \in 1..Len(table_order) : table_order[i] = x) - 1
    ELSE Len(table_order)

\* the elements of seq whose key is k, in their order in seq
RECURSIVE WithKey(_, _)
WithKey(seq, k) ==
    IF seq = <<>> THEN <<>>
    ELSE IF OrderKey(Head(seq)) = k THEN <<Head(seq)>> \o WithKey(Tail(seq), k)
    ELSE WithKey(Tail(seq), k)

\* sorted(tables, key=OrderKey): Python's sort is stable, so the result is
\* the tables of key 0, then of key 1, ... each group in listed order
RECURSIVE SortedFrom(_, _)
SortedFrom(tables, k) ==
    IF k > Len(table_order) THEN <<>>
    ELSE WithKey(tables, k) \o SortedFrom(tables, k + 1)
\* a mutation of OrderedTables: the tables stay in the order of the request
OrderedTables_as_listed(tables) == tables
OrderedTables(tables) == SortedFrom(tables, 0)

\* "Validate and prepare schemas": [exc, schemas]
RECURSIVE PrepareSchemas(_, _, _, _)
PrepareSchemas(tables, custom_schemas, server_schemas, acc) ==
    IF tables = <<>> THEN [exc |-> "", schemas |-> acc]
    ELSE LET table_name == Head(tables)
         IN  IF table_name \in DOMAIN custom_schemas
             THEN PrepareSchemas(Tail(tables), custom_schemas, server_schemas,
                                 Put(acc, table_name, custom_schemas[table_name]))
             ELSE IF table_name \in DOMAIN server_schemas
             THEN PrepareSchemas(Tail(tables), custom_schemas, server_schemas,
                                 Put(acc, table_name, server_schemas[table_name]))
             ELSE [exc |-> "ValueError", schemas |-> acc]

\* a mutation of RowsInvalid: zero rows pass the check
RowsInvalid_negative_only(rows) == rows < 0
\* `if rows <= 0: raise ValueError("Row count must be positive")`
RowsInvalid(rows) == rows <= 0

\* the handler raises exc: control is back with the caller
Raise(exc) ==
    /\ pc' = "done"
    /\ pending' = <<>>
    /\ returned' = [exc |-> exc, tables |-> EmptyDict]

\* the handler returns res
Return(res) ==
    /\ pc' = "done"
    /\ pending' = <<>>
    /\ returned' = [exc |-> "", tables |-> res]

\* Entry of handle_generate_tables up to the first loop iteration: argument
\* defaults, validation, _clear_generated_ids(), sorting.
HandleGenerateTables(tables, rows, custom_schemas) ==
    /\ pc = "idle"
    /\ request' = [tool |-> "generate_custom_tables", rows |-> rows,
                   unknown |-> UnknownTables(tables, custom_schemas)]
    /\ generated' = <<>>
    /\ UNCHANGED <<default_schemas, direct_vars, time_vars, tools_vars>>
    /\ LET prepared == PrepareSchemas(tables, custom_schemas,
                                      ServerDefaultSchemas, EmptyDict)
       IN  IF RowsInvalid(rows)
           THEN /\ Raise("ValueError")
                /\ rows_arg' = 0
                /\ schemas' = EmptyDict
                /\ result' = EmptyDict
                /\ UNCHANGED generated_ids
           ELSE IF prepared.exc # ""
           THEN /\ Raise(prepared.exc)
                /\ rows_arg' = 0
                /\ schemas' = EmptyDict
                /\ result' = EmptyDict
                /\ UNCHANGED generated_ids
           ELSE /\ generated_ids' = EmptyDict
                /\ rows_arg' = rows
                /\ schemas' = prepared.schemas
                /\ result' = EmptyDict
                /\ IF OrderedTables(tables) = <<>>
                   THEN Return(EmptyDict)
                   ELSE /\ pc' = "tables"
                        /\ pending' = OrderedTables(tables)
                        /\ returned' = NoReturn

(***************************************************************************)
(* DataGenServer.handle_generate_insurance_data                            *)
(***************************************************************************)
HandleGenerateInsuranceData(rows) ==
    /\ pc = "idle"
    /\ request' = [tool |-> "generate_insurance_data", rows |-> rows,
                   unknown |-> {}]
    /\ generated' = <<>>
    /\ UNCHANGED <<default_schemas, direct_vars, time_vars, tools_vars>>
    /\ IF RowsInvalid(rows)
       THEN /\ Raise("ValueError")
            /\ rows_arg' = 0
            /\ schemas' = EmptyDict
            /\ result' = EmptyDict
            /\ UNCHANGED generated_ids
       ELSE /\ generated_ids' = EmptyDict
            /\ rows_arg' = rows
            /\ schemas' = ServerDefaultSchemas
            /\ result' = EmptyDict
            /\ pc' = "insurance"
            /\ pending' = table_order
            /\ returned' = NoReturn

\* One iteration of `for table_name in ...` of either handler: the call of
\* generate_synthetic_data, the re-raise of a ValueError, and the return
\* that follows the last iteration.
GenerateNextTable ==
    /\ pc \in {"tables", "insurance"}
    /\ pending # <<>>
    /\ LET table_name == Head(pending)
       IN  \E o \in GenerateSyntheticData(generated_ids, default_schemas,
                                          table_name, schemas[table_name],
                                          rows_arg) :
              /\ generated_ids' = o.ids
              /\ generated' = Append(generated, table_name)
              /\ IF o.exc # ""
                 THEN /\ Raise(o.exc)
                      /\ UNCHANGED result
                 ELSE /\ result' = Put(result, table_name, o.data)
                      /\ IF Tail(pending) = <<>>
                         THEN Return(Put(result, table_name, o.data))
                         ELSE /\ pending' = Tail(pending)
                              /\ UNCHANGED <<pc, returned>>
    /\ UNCHANGED <<default_schemas, rows_arg, schemas, request,
                   direct_vars, time_vars, tools_vars, served>>

\* The caller has taken the handler's result or exception: the handler's
\* locals are gone, the generator keeps its recorded IDs.
Respond ==
    /\ pc = "done"
    /\ pc' = "idle"
    /\ pending' = <<>>
    /\ rows_arg' = 0
    /\ schemas' = EmptyDict
    /\ result' = EmptyDict
    /\ request' = NoRequest
    /\ returned' = NoReturn
    /\ generated' = <<>>
    /\ UNCHANGED <<generated_ids, default_schemas, direct_vars, time_vars,
                   tools_vars, served>>

\* the arguments the tool calls are made with
RECURSIVE SeqsUpTo(_, _)
SeqsUpTo(S, k) ==
    IF k = 0 THEN {<<>>}
    ELSE SeqsUpTo(S, k - 1)
         \cup {Append(q, e) : q \in {r \in SeqsUpTo(S, k - 1) : Len(r) = k - 1},
                              e \in S}
TableNames == {"customers", "policies", "claims", "orders"}
RowCounts == (-1) .. MaxRows
CustomSchemas == {EmptyDict, [orders |-> OrdersSchema]}

TableLists == SeqsUpTo(TableNames, MaxTables)

\* the server takes a tool call when no other one is in progress
NextServer ==
    \/ /\ pc = "idle"
       /\ \E tables \in TableLists, rows \in RowCounts,
             custom_schemas \in CustomSchemas :
             /\ HandleGenerateTables(tables, rows, custom_schemas)
             /\ UNCHANGED served
    \/ /\ pc = "idle"
       /\ \E rows \in RowCounts :
             /\ HandleGenerateInsuranceData(rows)
             /\ UNCHANGED served
    \/ GenerateNextTable
    \/ Respond

SpecServer == InitServer /\ [][NextServer]_vars

(***************************************************************************)
(* SyntheticDataGenerator used directly, as the unit tests do.             *)
(* default_schemas of a new generator (synthetic.py), restricted to the ID *)
(* column, the correlated column and one more column of every table, with  *)
(* the upper end of every ID range scaled down to min + IdSpan - 1.        *)
(***************************************************************************)
DEFAULT_CUSTOMER_SCHEMA ==
    Schema(<<"customer_id", "name">>,
           [customer_id |-> [type |-> "integer", min |-> 100000,
                             max |-> 100000 + IdSpan - 1],
            name |-> [type |-> "string", generator |-> "faker",
                      method |-> "name"]])

DEFAULT_POLICY_SCHEMA ==
    Schema(<<"policy_id", "customer_id", "start_date">>,
           [policy_id |-> [type |-> "integer", min |-> 100000,
                           max |-> 100000 + IdSpan - 1,
                           prefix |-> "POL-2024-"],
            customer_id |-> [type |-> "integer", correlated |-> TRUE],
            start_date |-> [type |-> "date", generator |-> "faker"]])

DEFAULT_CLAIMS_SCHEMA ==
    Schema(<<"claim_id", "policy_id", "date_filed">>,
           [claim_id |-> [type |-> "integer", min |-> 1000000,
                          max |-> 1000000 + IdSpan - 1],
            policy_id |-> [type |-> "integer", correlated |-> TRUE],
            date_filed |-> [type |-> "datetime"]])

GeneratorDefaultSchemas ==
    [customers |-> DEFAULT_CUSTOMER_SCHEMA,
     policies |-> DEFAULT_POLICY_SCHEMA,
     claims |-> DEFAULT_CLAIMS_SCHEMA]

\* SyntheticDataGenerator.__init__ with the given recorded IDs
InitGenerator(ids) ==
    /\ generated_ids = ids
    /\ default_schemas = GeneratorDefaultSchemas
    /\ pc = "idle"
    /\ pending = <<>>
    /\ rows_arg = 0
    /\ schemas = EmptyDict
    /\ result = EmptyDict
    /\ request = NoRequest
    /\ returned = NoReturn
    /\ generated = <<>>
    /\ call = NoCall
    /\ ret = NoRet
    /\ query = NoQuery
    /\ answer = NoAnswer
    /\ served = NoServed
    /\ IdleTools

\* data = await generator.generate_synthetic_data(table_name, schema, rows):
\* `generated` lists the tables of all calls made, `result` keeps the data
\* of the calls that returned
GenerateSyntheticDataCall(table_name, schema, rows) ==
    /\ \E o \in GenerateSyntheticData(generated_ids, default_schemas,
                                      table_name, schema, rows) :
          /\ generated_ids' = o.ids
          /\ call' = [table |-> table_name, schema |-> schema, rows |-> rows]
          /\ ret' = [exc |-> o.exc,
                     data |-> IF o.exc = "" THEN o.data ELSE EmptyDict]
          /\ result' = IF o.exc = "" THEN Put(result, table_name, o.data)
                       ELSE result
    /\ generated' = Append(generated, table_name)
    /\ UNCHANGED <<default_schemas, handler_vars, time_vars, tools_vars,
                   served>>

(***************************************************************************)
(* SpecRelations: customers, policies and claims are generated from the    *)
(* default schemas on one new generator, each table by one call, in any    *)
(* order, with any row counts.                                             *)
(***************************************************************************)
InitRelations == InitGenerator(EmptyDict)

NextRelations ==
    \E table_name \in DOMAIN GeneratorDefaultSchemas, rows \in 1..MaxRows :
        /\ table_name \notin Range(generated)
        /\ GenerateSyntheticDataCall(table_name,
                                     GeneratorDefaultSchemas[table_name], rows)

SpecRelations == InitRelations /\ [][NextRelations]_vars

(***************************************************************************)
(* SpecColumns: one generate_synthetic_data call on a generator that may   *)
(* hold IDs recorded by earlier calls.  The schemas are those of the unit  *)
(* tests and of the docstrings, with ranges of ColumnSpan values, and      *)
(* schemas that name a generator for an ID column or an integer column.    *)
(***************************************************************************)
SpanMax(lo) == lo + ColumnSpan - 1

\* tests/unit/test_synthetic.py, test_string_prefix_generation
PrefixSchema ==
    Schema(<<"policy_id">>,
           [policy_id |-> [type |-> "integer", generator |-> "numpy",
                           min |-> 100000, max |-> SpanMax(100000),
                           prefix |-> "POL-2024-"]])

\* tests/unit/test_synthetic.py, the sample_schema fixture
SampleSchema ==
    Schema(<<"id", "name", "age", "score">>,
           [id |-> [type |-> "int", min |-> 1, max |-> SpanMax(1)],
            name |-> [type |-> "string", categories |-> <<"Alice", "Bob">>],
            age |-> [type |-> "int", min |-> 18, max |-> 19],
            score |-> [type |-> "float", min |-> 0, max |-> 100]])

\* tests/unit/test_synthetic.py, test_integer_type_handling
AgeSchema ==
    Schema(<<"age">>,
           [age |-> [type |-> "integer", min |-> 18, max |-> SpanMax(18)]])
\* an integer column that names the numpy generator
CountSchema ==
    Schema(<<"count">>,
           [count |-> [type |-> "int", generator |-> "numpy",
                       min |-> 1, max |-> SpanMax(1)]])

\* tests/unit/test_synthetic.py, test_multiple_table_generation
TestCustomersSchema ==
    Schema(<<"customer_id", "name">>,
           [customer_id |-> [type |-> "int", min |-> 1, max |-> SpanMax(1)],
            name |-> [type |-> "string"]])
TestPoliciesSchema ==
    Schema(<<"policy_id", "customer_id", "premium">>,
           [policy_id |-> [type |-> "int", min |-> 1, max |-> SpanMax(1)],
            customer_id |-> [type |-> "int", min |-> 1, max |-> SpanMax(1),
                             correlated |-> TRUE],
            premium |-> [type |-> "float", min |-> 500, max |-> 5000]])

\* ID columns that name a Faker and a Mimesis generator
GeneratorIdSchema ==
    Schema(<<"order_id", "ref_id">>,
           [order_id |-> [type |-> "integer", generator |-> "faker",
                          min |-> 1, max |-> SpanMax(1)],
            ref_id |-> [type |-> "int",
                        generator |-> "mimesis.person.full_name",
                        min |-> 1, max |-> SpanMax(1), prefix |-> "R-"]])

\* an integer column that names a function of np.random
NumpyFunctionSchema ==
    Schema(<<"ratio">>,
           [ratio |-> [type |-> "integer", generator |-> "numpy.random_sample",
                       min |-> 1, max |-> SpanMax(1)]])

\* an ID column of a type _generate_unique_id does not support
StringIdSchema ==
    Schema(<<"flag_id">>,
           [flag_id |-> [type |-> "string", min |-> 1, max |-> SpanMax(1)]])

\* "correlated": False on an ID column and on an integer column
UncorrelatedSchema ==
    Schema(<<"owner_id", "code">>,
           [owner_id |-> [type |-> "integer", min |-> 1, max |-> SpanMax(1),
                          correlated |-> FALSE],
            code |-> [type |-> "integer", min |-> 1, max |-> SpanMax(1),
                      correlated |-> FALSE]])

\* server.py, the claims entry of default_schemas: a correlated integer
\* column with bounds and a prefix
CorrelatedBoundsSchema ==
    Schema(<<"claim_id", "policy_id">>,
           [claim_id |-> [type |-> "integer", generator |-> "numpy",
                          min |-> 100000, max |-> SpanMax(100000)],
            policy_id |-> [type |-> "integer", generator |-> "numpy",
                           min |-> 100000, max |-> SpanMax(100000),
                           prefix |-> "POL-2024-", correlated |-> TRUE]])

\* the example of the docstring of _map_type_to_generator
DocstringIdSchema ==
    Schema(<<"id">>,
           [id |-> [type |-> "integer", min |-> 1, max |-> SpanMax(1),
                    prefix |-> "ID-"]])

\* the (table_name, schema) arguments of the call
ColumnCalls ==
    { [table |-> "test", schema |-> PrefixSchema],
      [table |-> "test_table", schema |-> SampleSchema],
      [table |-> "test_table", schema |-> AgeSchema],
      [table |-> "test_table", schema |-> CountSchema],
      [table |-> "customers", schema |-> TestCustomersSchema],
      [table |-> "policies", schema |-> TestPoliciesSchema],
      [table |-> "orders", schema |-> GeneratorIdSchema],
      [table |-> "test", schema |-> NumpyFunctionSchema],
      [table |-> "test", schema |-> StringIdSchema],
      [table |-> "test", schema |-> UncorrelatedSchema],
      [table |-> "claims", schema |-> CorrelatedBoundsSchema],
      [table |-> "test", schema |-> DocstringIdSchema] }

\* rows: the generator itself does not validate it
ColumnRowArgs == (-1) .. ColumnRows

\* self._generated_ids as earlier calls may have left it
PriorIds ==
    { EmptyDict,
      [test |-> {StrVal("POL-2024-100000"), IntVal(1)}],
      [customers |-> {IntVal(1)}, policies |-> {IntVal(1)}] }

InitColumns == \E ids \in PriorIds : InitGenerator(ids)

NextColumns ==
    /\ call = NoCall
    /\ \E c \in ColumnCalls, rows \in ColumnRowArgs :
          GenerateSyntheticDataCall(c.table, c.schema, rows)

SpecColumns == InitColumns /\ [][NextColumns]_vars

(***************************************************************************)
(* Properties of the DataGenServer handlers (SpecServer).                  *)
(***************************************************************************)
\* the values of column col of table t in a returned result
Column(tables, t, col) == Range(tables[t][col])

\* referential integrity of a returned result
PoliciesReferToCustomers(tables) ==
    ({"customers", "policies"} \subseteq DOMAIN tables) =>
        Column(tables, "policies", "customer_id")
            \subseteq Column(tables, "customers", "customer_id")
ClaimsReferToPolicies(tables) ==
    ({"policies", "claims"} \subseteq DOMAIN tables) =>
        Column(tables, "claims", "policy_id")
            \subseteq Column(tables, "policies", "policy_id")

\* every listed table was generated from the server's default schema
UsesDefaultSchemas ==
    \A t \in DOMAIN schemas :
        t \in DOMAIN ServerDefaultSchemas /\ schemas[t] = ServerDefaultSchemas[t]

\* C1: every result that generate_custom_tables returns for default schemas,
\* for any `tables` array (any order, repeated names) and after any earlier
\* calls, keeps referential integrity: policies.customer_id values occur in
\* customers.customer_id, claims.policy_id values occur in policies.policy_id.
C1_CustomTablesKeepIntegrity ==
    (/\ pc = "done"
     /\ request.tool = "generate_custom_tables"
     /\ returned.exc = ""
     /\ UsesDefaultSchemas)
    => /\ PoliciesReferToCustomers(returned.tables)
       /\ ClaimsReferToPolicies(returned.tables)

\* C2: every successful generate_insurance_data call, whatever preceded it,
\* returns exactly customers, policies and claims, with every
\* policies.customer_id in customers.customer_id and every claims.policy_id
\* in policies.policy_id.
C2_InsuranceDataKeepsIntegrity ==
    (/\ pc = "done"
     /\ request.tool = "generate_insurance_data"
     /\ returned.exc = "")
    => /\ request.rows >= 1
       /\ DOMAIN returned.tables = {"customers", "policies", "claims"}
       /\ Column(returned.tables, "policies", "customer_id")
             \subseteq Column(returned.tables, "customers", "customer_id")
       /\ Column(returned.tables, "claims", "policy_id")
             \subseteq Column(returned.tables, "policies", "policy_id")

\* generate_insurance_data returned MaxRows rows of every table
C2_Witness ==
    /\ pc = "done"
    /\ request.tool = "generate_insurance_data"
    /\ returned.exc = ""
    /\ request.rows = MaxRows
    /\ Len(returned.tables["claims"]["policy_id"]) = MaxRows

\* the request fails validation: a non-positive row count, or (for
\* generate_custom_tables) a listed table without custom or default schema
InvalidRequest(req) ==
    \/ req.rows <= 0
    \/ req.unknown # {}

\* C7: a handler that is entered with an invalid request raises ValueError
\* at once: it generates no table and leaves the recorded IDs unchanged.
C7_ValidationPrecedesGeneration ==
    [][(pc = "idle" /\ pc' # "idle" /\ InvalidRequest(request'))
          => /\ pc' = "done"
             /\ returned'.exc = "ValueError"
             /\ returned'.tables = EmptyDict
             /\ generated' = <<>>
             /\ generated_ids' = generated_ids]_vars

\* a request naming a table without schema was rejected while IDs of an
\* earlier call were recorded, and they still are
C7_Witness ==
    /\ pc = "done"
    /\ request.tool = "generate_custom_tables"
    /\ request.rows >= 1
    /\ request.unknown # {}
    /\ returned.exc = "ValueError"
    /\ generated = <<>>
    /\ generated_ids # EmptyDict
    /\ \E t \in DOMAIN generated_ids : generated_ids[t] # {}

(***************************************************************************)
(* mcp_server_time: the timezone database, datetime and strptime as        *)
(* TimeServer uses them.                                                   *)
(***************************************************************************)
\* zones of the timezone database: the standard UTC offset and the
\* daylight-saving shift, in minutes
ZoneTable ==
    ("Europe/London" :> [std |-> 0, shift |-> 60]) @@
    ("Europe/Warsaw" :> [std |-> 60, shift |-> 60]) @@
    ("America/New_York" :> [std |-> -300, shift |-> 60]) @@
    ("Asia/Kathmandu" :> [std |-> 345, shift |-> 0]) @@
    ("Asia/Kolkata" :> [std |-> 330, shift |-> 0])

\* pytz.timezone(zone): [exc, zone, text]; text is str(e) of the
\* UnknownTimeZoneError, a KeyError, i.e. the repr of the name
PytzTimezone(zone) ==
    IF zone \in DOMAIN ZoneTable
    THEN [exc |-> "", zone |-> zone, text |-> ""]
    ELSE [exc |-> "UnknownTimeZoneError", zone |-> "",
          text |-> "'" \o zone \o "'"]

\* a datetime: the local fields, the UTC offset and the DST shift in minutes
DateTime(year, month, day, hour, minute, second, utcoffset, dst) ==
    [year |-> year, month |-> month, day |-> day, hour |-> hour,
     minute |-> minute, second |-> second, utcoffset |-> utcoffset,
     dst |-> dst]

\* daylight saving is in effect in the zones above (away from the days of
\* the transitions, which the instants below avoid)
InSummer(month) == month \in 4..9
Dst(zone, month) == IF InSummer(month) THEN ZoneTable[zone].shift ELSE 0
UtcOffset(zone, month) == ZoneTable[zone].std + Dst(zone, month)

\* the fields of dt moved by delta minutes, within the month
PlusMinutes(dt, delta) ==
    LET total == (dt.day * 24 + dt.hour) * 60 + dt.minute + delta
    IN  [dt EXCEPT !.day = total \div (24 * 60),
                   !.hour = (total % (24 * 60)) \div 60,
                   !.minute = total % 60]

\* a mutation of AsTimezone: the difference of the offsets is subtracted
AsTimezone_backwards(dt, zone) ==
    LET moved == PlusMinutes(dt, dt.utcoffset - UtcOffset(zone, dt.month))
    IN  [moved EXCEPT !.utcoffset = UtcOffset(zone, dt.month),
                      !.dst = Dst(zone, dt.month)]
\* dt.astimezone(zone)
AsTimezone(dt, zone) ==
    LET moved == PlusMinutes(dt, UtcOffset(zone, dt.month) - dt.utcoffset)
    IN  [moved EXCEPT !.utcoffset = UtcOffset(zone, dt.month),
                      !.dst = Dst(zone, dt.month)]

\* zone.localize(datetime(year, month, day, hour, minute))
Localize(zone, year, month, day, hour, minute) ==
    DateTime(year, month, day, hour, minute, 0,
             UtcOffset(zone, month), Dst(zone, month))

\* "%02d"
Pad2(k) == IF k < 10 THEN "0" \o Decimal(k) ELSE Decimal(k)

\* dt.isoformat(timespec="seconds")
IsoFormat(dt) ==
    LET off == IF dt.utcoffset < 0 THEN 0 - dt.utcoffset ELSE dt.utcoffset
    IN  Decimal(dt.year) \o "-" \o Pad2(dt.month) \o "-" \o Pad2(dt.day)
        \o "T" \o Pad2(dt.hour) \o ":" \o Pad2(dt.minute) \o ":"
        \o Pad2(dt.second)
        \o (IF dt.utcoffset < 0 THEN "-" ELSE "+")
        \o Pad2(off \div 60) \o ":" \o Pad2(off % 60)

CharAt(str, i) == IF 1 <= i /\ i <= Len(str) THEN SubSeq(str, i, i) ELSE ""
IsDigit(ch) == \E k \in 0..9 : Digit(k) = ch

\* a mutation of HourLengths: the first alternative is 2[0-4]
HourLengths_to_24(str) ==
    (IF CharAt(str, 1) = "2" /\ CharAt(str, 2) \in {"0", "1", "2", "3", "4"}
     THEN <<2>> ELSE <<>>)
    \o (IF CharAt(str, 1) \in {"0", "1"} /\ IsDigit(CharAt(str, 2))
        THEN <<2>> ELSE <<>>)
    \o (IF IsDigit(CharAt(str, 1)) THEN <<1>> ELSE <<>>)

\* %H is the regex 2[0-3]|[0-1]\d|\d : the lengths of the alternatives that
\* match at the start of str, in the order the regex engine tries them
HourLengths(str) ==
    (IF CharAt(str, 1) = "2" /\ CharAt(str, 2) \in {"0", "1", "2", "3"}
     THEN <<2>> ELSE <<>>)
    \o (IF CharAt(str, 1) \in {"0", "1"} /\ IsDigit(CharAt(str, 2))
        THEN <<2>> ELSE <<>>)
    \o (IF IsDigit(CharAt(str, 1)) THEN <<1>> ELSE <<>>)

\* %M is the regex [0-5]\d|\d , tried at position pos
MinuteLengths(str, pos) ==
    (IF CharAt(str, pos) \in {"0", "1", "2", "3", "4", "5"}
        /\ IsDigit(CharAt(str, pos + 1))
     THEN <<2>> ELSE <<>>)
    \o (IF IsDigit(CharAt(str, pos)) THEN <<1>> ELSE <<>>)

\* datetime.strptime(time_str, "%H:%M").time(): [exc, hour, minute].  The
\* format regex has to match at the start of the string, and the match has
\* to end where the string ends ("unconverted data remains" otherwise).
StrpTime(time_str) ==
    LET hls == HourLengths(time_str)
        fits == {i \in 1..Len(hls) :
                    /\ CharAt(time_str, hls[i] + 1) = ":"
                    /\ MinuteLengths(time_str, hls[i] + 2) # <<>>}
    IN  IF fits = {} THEN [exc |-> "ValueError", hour |-> 0, minute |-> 0]
        ELSE LET first == CHOOSE i \in fits : \A j \in fits : i <= j
                 hl == hls[first]
                 ml == Head(MinuteLengths(time_str, hl + 2))
             IN  IF hl + 1 + ml # Len(time_str)
                 THEN [exc |-> "ValueError", hour |-> 0, minute |-> 0]
                 ELSE [exc |-> "",
                       hour |-> DecimalValue(SubSeq(time_str, 1, hl)),
                       minute |-> DecimalValue(
                                     SubSeq(time_str, hl + 2, hl + 1 + ml))]

\* str.rstrip(ch)
RECURSIVE RStrip(_, _)
RStrip(str, ch) ==
    IF Len(str) > 0 /\ CharAt(str, Len(str)) = ch
    THEN RStrip(DropLast(str), ch) ELSE str

\* a mutation of FormatHours: the format is :.1f / :.2f, without the "+"
FormatHours_unsigned(minutes, decimals) ==
    LET m == IF minutes < 0 THEN 0 - minutes ELSE minutes
        hundredths == ((m % 60) * 100) \div 60
    IN  (IF minutes < 0 THEN "-" ELSE "") \o Decimal(m \div 60) \o "."
        \o (IF decimals = 1 THEN Decimal(hundredths \div 10)
            ELSE Pad2(hundredths))
\* f"{hours:+.1f}" and f"{hours:+.2f}" of minutes / 60, for a number of
\* minutes that is a multiple of 15
FormatHours(minutes, decimals) ==
    LET m == IF minutes < 0 THEN 0 - minutes ELSE minutes
        hundredths == ((m % 60) * 100) \div 60
    IN  (IF minutes < 0 THEN "-" ELSE "+") \o Decimal(m \div 60) \o "."
        \o (IF decimals = 1 THEN Decimal(hundredths \div 10)
            ELSE Pad2(hundredths))

(***************************************************************************)
(* TimeServer (time/src/mcp_server_time/server.py)                         *)
(***************************************************************************)
TimeResult(timezone, datetime, is_dst) ==
    [timezone |-> timezone, datetime |-> datetime, is_dst |-> is_dst]
TimeConversionResult(source, target, time_difference) ==
    [source |-> source, target |-> target,
     time_difference |-> time_difference]
NoResult == TimeResult("", "", FALSE)

TimeRaise(exc, message) ==
    [exc |-> exc, message |-> message, result |-> NoResult]
TimeReturn(res) == [exc |-> "", message |-> "", result |-> res]

\* TimeServer.get_current_time; now is the instant datetime.now reads, in UTC
get_current_time(timezone_name, now) ==
    LET timezone == PytzTimezone(timezone_name)
    IN  IF timezone.exc # ""
        THEN TimeRaise("ValueError", "Unknown timezone: " \o timezone.text)
        ELSE LET current_time == AsTimezone(now, timezone.zone)
             IN  TimeReturn(TimeResult(timezone_name,
                                       IsoFormat(current_time),
                                       current_time.dst # 0))

\* the message of the ValueError for a time string strptime rejects
InvalidTimeFormat == "Invalid time format. Expected HH:MM [24-hour format]"

\* TimeServer.convert_time
convert_time(source_tz, time_str, target_tz, now) ==
    LET source_timezone == PytzTimezone(source_tz)
        target_timezone == PytzTimezone(target_tz)
        parsed_time == StrpTime(time_str)
    IN  IF source_timezone.exc # ""
        THEN TimeRaise("ValueError",
                       "Unknown source timezone: " \o source_timezone.text)
        ELSE IF target_timezone.exc # ""
        THEN TimeRaise("ValueError",
                       "Unknown target timezone: " \o target_timezone.text)
        ELSE IF parsed_time.exc # ""
        THEN TimeRaise("ValueError", InvalidTimeFormat)
        ELSE
        LET today == AsTimezone(now, source_timezone.zone)
            source_time == Localize(source_timezone.zone, today.year,
                                    today.month, today.day,
                                    parsed_time.hour, parsed_time.minute)
            target_time == AsTimezone(source_time, target_timezone.zone)
            difference == target_time.utcoffset - source_time.utcoffset
            time_diff_str ==
                IF difference % 60 = 0
                THEN FormatHours(difference, 1) \o "h"
                ELSE RStrip(RStrip(FormatHours(difference, 2), "0"), ".")
                     \o "h"
        IN  TimeReturn(TimeConversionResult(
                TimeResult(source_tz, IsoFormat(source_time),
                           source_time.dst # 0),
                TimeResult(target_tz, IsoFormat(target_time),
                           target_time.dst # 0),
                time_diff_str))

(***************************************************************************)
(* serve.call_tool of the time server, and json.dumps as it uses it.       *)
(***************************************************************************)
\* the classes json.dumps has an encoding for
JsonSerializable == {"dict", "list", "str", "int", "float", "bool", "NoneType"}

JsonBool(b) == IF b THEN "true" ELSE "false"
\* a dict with the keys of a TimeResult, every line after `pad`
JsonTimeResult(r, pad) ==
    "{\n" \o pad \o "  \"timezone\": \"" \o r.timezone \o "\",\n"
    \o pad \o "  \"datetime\": \"" \o r.datetime \o "\",\n"
    \o pad \o "  \"is_dst\": " \o JsonBool(r.is_dst) \o "\n"
    \o pad \o "}"
\* a dict with the keys of a TimeConversionResult
JsonTimeConversionResult(r) ==
    "{\n  \"source\": " \o JsonTimeResult(r.source, "  ") \o ",\n"
    \o "  \"target\": " \o JsonTimeResult(r.target, "  ") \o ",\n"
    \o "  \"time_difference\": \"" \o r.time_difference \o "\"\n}"
JsonText(value) ==
    IF "time_difference" \in DOMAIN value
    THEN JsonTimeConversionResult(value) ELSE JsonTimeResult(value, "")

\* json.dumps(obj, indent=2) for an obj of class cls: [exc, message, text].
\* The default encoder raises TypeError for an object of any other class.
JsonDumps(cls, obj) ==
    IF cls \in JsonSerializable
    THEN [exc |-> "", message |-> "", text |-> JsonText(obj)]
    ELSE [exc |-> "TypeError",
          message |-> "Object of type " \o cls
                      \o " is not JSON serializable",
          text |-> ""]

TextContent(text) == [type |-> "text", text |-> text]

\* the body of the try block up to the tool's result:
\* [exc, message, result, cls], cls the class of the result
DispatchTimeTool(name, arguments, now) ==
    LET raiseValueError(message) ==
            [exc |-> "ValueError", message |-> message, result |-> NoResult,
             cls |-> ""]
        resultOf(a, cls) ==
            [exc |-> a.exc, message |-> a.message, result |-> a.result,
             cls |-> cls]
    IN  IF name = "get_current_time"
        THEN IF Get(arguments, "timezone", "") = ""
             THEN raiseValueError("Missing required argument: timezone")
             ELSE resultOf(get_current_time(arguments["timezone"], now),
                           "TimeResult")
        ELSE IF name = "convert_time"
        THEN IF ~ ({"source_timezone", "time", "target_timezone"}
                      \subseteq DOMAIN arguments)
             THEN raiseValueError("Missing required arguments")
             ELSE resultOf(convert_time(arguments["source_timezone"],
                                        arguments["time"],
                                        arguments["target_timezone"], now),
                           "TimeConversionResult")
        ELSE raiseValueError("Unknown tool: " \o name)

\* the except clause of serve.call_tool: any exception becomes a ValueError
WrapToolError(message) ==
    [exc |-> "ValueError",
     message |-> "Error processing mcp-server-time query: " \o message,
     result |-> <<>>]

\* the return statement of serve.call_tool, `dumped` the outcome of json.dumps
ToolContents(dumped) ==
    IF dumped.exc # "" THEN WrapToolError(dumped.message)
    ELSE [exc |-> "", message |-> "",
          result |-> <<TextContent(dumped.text)>>]

\* serve.call_tool after the match statement, `r` the outcome of the tool
ToolResponse(r) ==
    IF r.exc # "" THEN WrapToolError(r.message)
    ELSE ToolContents(JsonDumps(r.cls, r.result))

\* serve.call_tool: [exc, message, result]; result is the list of contents
call_tool(name, arguments, now) ==
    ToolResponse(DispatchTimeTool(name, arguments, now))

(***************************************************************************)
(* SpecTime: calls of the two TimeServer methods with known and unknown    *)
(* timezone names and with time strings put together from hour and minute  *)
(* texts, separators and endings.                                          *)
(***************************************************************************)
TimezoneNames == DOMAIN ZoneTable \cup {"invalid_tz", "Invalid/Timezone"}

HourTexts == {"0", "7", "07", "19", "23", "24", "25", "007", "1a", ""}
MinuteTexts == {"00", "5", "59", "60", "61", "3x", ""}
Separators == {":", ".", ""}
Endings == {"", ":00"}
TimeStrings ==
    {h \o sep \o m \o e :
        h \in HourTexts, sep \in Separators, m \in MinuteTexts, e \in Endings}

\* the instants datetime.now() reads, in UTC
Instants ==
    { DateTime(2024, 1, 15, 12, 0, 0, 0, 0),
      DateTime(2024, 7, 15, 23, 30, 59, 0, 0) }

\* the tools a client may name, and the arguments it may send
ToolNames == {"get_current_time", "convert_time", "get_time"}
ToolArguments ==
    {EmptyDict}
    \cup {[timezone |-> tz] : tz \in TimezoneNames \cup {""}}
    \cup {[source_timezone |-> "Europe/Warsaw", time |-> "19:00"]}
    \cup {[source_timezone |-> a, time |-> t, target_timezone |-> b] :
              a \in {"Europe/Warsaw", "invalid_tz"},
              b \in {"Asia/Kathmandu", "invalid_tz"},
              t \in {"19:00", "7:5", "25:00"}}

\* the generator and the time server before their first call
IdleGeneratorAndTime ==
    /\ query = NoQuery
    /\ answer = NoAnswer
    /\ generated_ids = EmptyDict
    /\ default_schemas = GeneratorDefaultSchemas
    /\ pc = "idle"
    /\ pending = <<>>
    /\ rows_arg = 0
    /\ schemas = EmptyDict
    /\ result = EmptyDict
    /\ request = NoRequest
    /\ returned = NoReturn
    /\ generated = <<>>
    /\ call = NoCall
    /\ ret = NoRet
    /\ served = NoServed

InitTime == IdleGeneratorAndTime /\ IdleTools

GetCurrentTime(timezone_name, now) ==
    /\ answer = NoAnswer
    /\ query' = [tool |-> "get_current_time", timezone |-> timezone_name,
                 now |-> now]
    /\ answer' = get_current_time(timezone_name, now)
    /\ UNCHANGED <<datagen_vars, tools_vars>>

ConvertTime(source_tz, time_str, target_tz, now) ==
    /\ answer = NoAnswer
    /\ query' = [tool |-> "convert_time", source_tz |-> source_tz,
                 time |-> time_str, target_tz |-> target_tz, now |-> now]
    /\ answer' = convert_time(source_tz, time_str, target_tz, now)
    /\ UNCHANGED <<datagen_vars, tools_vars>>

CallTool(name, arguments, now) ==
    /\ answer = NoAnswer
    /\ query' = [tool |-> "call_tool", name |-> name,
                 arguments |-> arguments, now |-> now]
    /\ answer' = call_tool(name, arguments, now)
    /\ UNCHANGED <<datagen_vars, tools_vars>>

\* the caller has the result or the exception; the server takes the next call
TimeCallDone ==
    /\ answer # NoAnswer
    /\ query' = NoQuery
    /\ answer' = NoAnswer
    /\ UNCHANGED <<datagen_vars, tools_vars>>

NextTime ==
    \/ /\ answer = NoAnswer
       /\ \E tz \in TimezoneNames, now \in Instants :
             GetCurrentTime(tz, now)
    \/ /\ answer = NoAnswer
       /\ \E source_tz \in TimezoneNames, target_tz \in TimezoneNames,
             time_str \in TimeStrings, now \in Instants :
             ConvertTime(source_tz, time_str, target_tz, now)
    \/ /\ answer = NoAnswer
       /\ \E name \in ToolNames, arguments \in ToolArguments,
             now \in Instants :
             CallTool(name, arguments, now)
    \/ TimeCallDone

SpecTime == InitTime /\ [][NextTime]_vars

(***************************************************************************)
(* The git server: a repository that holds one file, test.txt, and the     *)
(* tools that stage, commit, branch and check out.                         *)
(***************************************************************************)
MaxCommits == 2
MaxContent == 2

GitReturn(text, r) == [exc |-> "", text |-> text, repo |-> r]
GitRaise(exc, r) == [exc |-> exc, text |-> "", repo |-> r]

IsBranch(r, name) == name \in DOMAIN r.refs
\* the tree of the commit HEAD points to; nothing on an unborn branch
HeadTree(r) ==
    IF IsBranch(r, r.head) THEN r.commits[r.refs[r.head]] ELSE 0
\* the path is in the index
IsTracked(r, name) == name = "test.txt" /\ r.index # 0

\* HEAD is moved to the branch; the index and the file are as given
SwitchTo_stays(r, name, index, work) ==
    [r EXCEPT !.index = index, !.work = work]
SwitchTo(r, name, index, work) ==
    [r EXCEPT !.head = name, !.index = index, !.work = work]

\* repo.git.checkout(name): the repositories it may leave, with "" for
\* success or the exception.  A branch is taken first; the file follows
\* the two-tree merge of HEAD and the branch, which refuses to overwrite
\* local changes; a name that is no branch is taken as a path of the index.
GitCheckoutCommand(r, name) ==
    IF IsBranch(r, name)
    THEN LET old == HeadTree(r)
             new == r.commits[r.refs[name]]
         IN  IF old = new
             THEN {GitReturn("", SwitchTo(r, name, r.index, r.work))}
             ELSE IF r.index = new
             THEN {GitReturn("", SwitchTo(r, name, r.index, r.work))}
             ELSE IF r.index = old /\ r.work = r.index
             THEN {GitReturn("", SwitchTo(r, name, new, new))}
             ELSE IF r.index = old /\ r.index = 0 /\ r.work = new
             \* an untracked file equal to the one to be written: git
             \* versions differ on whether it is in the way
             THEN {GitReturn("", SwitchTo(r, name, new, new)),
                   GitRaise("GitCommandError", r)}
             ELSE {GitRaise("GitCommandError", r)}
    ELSE IF IsTracked(r, name)
    THEN {GitReturn("", [r EXCEPT !.work = r.index])}
    ELSE {GitRaise("GitCommandError", r)}

\* git_checkout(repo, branch_name)
git_checkout(r, branch_name) ==
    {IF o.exc # "" THEN o
     ELSE GitReturn("Switched to branch '" \o branch_name \o "'", o.repo) :
        o \in GitCheckoutCommand(r, branch_name)}

\* git_create_branch(repo, branch_name, base_branch); base_branch "" is None
git_create_branch(r, branch_name, base_branch) ==
    LET base == IF base_branch # "" THEN base_branch ELSE r.head
    IN  IF base_branch # "" /\ ~IsBranch(r, base_branch)
        THEN GitRaise("IndexError", r)
        ELSE IF ~IsBranch(r, base)
        THEN GitRaise("BadName", r)
        ELSE IF IsBranch(r, branch_name) /\ r.refs[branch_name] # r.refs[base]
        THEN GitRaise("OSError", r)
        ELSE GitReturn("Created branch '" \o branch_name \o "' from '"
                           \o base \o "'",
                       [r EXCEPT !.refs = Put(r.refs, branch_name,
                                              r.refs[base])])

\* git_add(repo, ["test.txt"])
git_add(r) ==
    IF r.work = 0 THEN GitRaise("FileNotFoundError", r)
    ELSE GitReturn("Files staged successfully", [r EXCEPT !.index = r.work])

\* git_commit(repo, message): a commit of the index on the current branch
git_commit(r) ==
    LET hexsha == Len(r.commits) + 1
    IN  GitReturn("Changes committed successfully with hash "
                      \o Decimal(hexsha),
                  [r EXCEPT !.commits = Append(r.commits, r.index),
                            !.refs = Put(r.refs, r.head, hexsha)])

BranchNames == {"master", "test-branch", "test.txt", "nonexistent-branch"}
NewBranchNames == {"test-branch", "test.txt"}

GitDone(op, args, o) ==
    /\ git_call' = [op |-> op, args |-> args, repo |-> repo]
    /\ git_ret' = [exc |-> o.exc, text |-> o.text]
    /\ repo' = o.repo
    /\ UNCHANGED <<datagen_vars, time_vars, notes_vars, unique_id_vars,
                   sqlite_vars, sentry_vars, fetch_vars>>

\* the user edits test.txt
WriteFile(content) ==
    /\ repo' = [repo EXCEPT !.work = content]
    /\ git_call' = [op |-> "write_text", args |-> <<Decimal(content)>>,
                    repo |-> repo]
    /\ git_ret' = NoGitRet
    /\ UNCHANGED <<datagen_vars, time_vars, notes_vars, unique_id_vars,
                   sqlite_vars, sentry_vars, fetch_vars>>
GitAdd == GitDone("git_add", <<"test.txt">>, git_add(repo))
GitCommit ==
    /\ Len(repo.commits) < MaxCommits
    /\ GitDone("git_commit", <<>>, git_commit(repo))
GitCreateBranch(branch_name, base_branch) ==
    GitDone("git_create_branch", <<branch_name, base_branch>>,
            git_create_branch(repo, branch_name, base_branch))
GitCheckout(branch_name) ==
    \E o \in git_checkout(repo, branch_name) :
        GitDone("git_checkout", <<branch_name>>, o)

InitGit == InitTime
NextGit ==
    \/ \E content \in 1..MaxContent : WriteFile(content)
    \/ GitAdd
    \/ GitCommit
    \/ \E branch_name \in NewBranchNames, base_branch \in {"", "master"} :
          GitCreateBranch(branch_name, base_branch)
    \/ \E branch_name \in BranchNames : GitCheckout(branch_name)
SpecGit == InitGit /\ [][NextGit]_vars

(***************************************************************************)
(* The SQLite server: the database file with one table name in use, the    *)
(* insights memo, and the handlers of tool calls and resource reads.       *)
(***************************************************************************)
MaxSqlRows == 1
MaxInsights == 2

Whitespace == {" ", "\n", "\t"}
\* s.strip()
Strip(str) ==
    LET kept == {k \in 1..Len(str) : CharAt(str, k) \notin Whitespace}
    IN  IF kept = {} THEN ""
        ELSE SubSeq(str, CHOOSE k \in kept : \A j \in kept : k <= j,
                         CHOOSE k \in kept : \A j \in kept : k >= j)

LowerCase == "abcdefghijklmnopqrstuvwxyz"
UpperCase == "ABCDEFGHIJKLMNOPQRSTUVWXYZ"
UpperTable ==
    [ch \in {CharAt(LowerCase, k) : k \in 1..26} |->
        CharAt(UpperCase, CHOOSE k \in 1..26 : CharAt(LowerCase, k) = ch)]
UpperChar(ch) == IF ch \in DOMAIN UpperTable THEN UpperTable[ch] ELSE ch
RECURSIVE UpperFrom(_, _)
UpperFrom(str, i) ==
    IF i > Len(str) THEN ""
    ELSE UpperChar(CharAt(str, i)) \o UpperFrom(str, i + 1)
\* s.upper()
Upper(str) == UpperFrom(str, 1)

RECURSIVE ReplaceFrom(_, _, _, _)
ReplaceFrom(str, i, old, new) ==
    IF i > Len(str) THEN ""
    ELSE IF i + Len(old) - 1 <= Len(str)
            /\ SubSeq(str, i, i + Len(old) - 1) = old
    THEN new \o ReplaceFrom(str, i + Len(old), old, new)
    ELSE CharAt(str, i) \o ReplaceFrom(str, i + 1, old, new)
\* s.replace(old, new), old not empty
Replace(str, old, new) == ReplaceFrom(str, 1, old, new)

\* sep.join(list)
RECURSIVE Join(_, _)
Join(sep, list) ==
    IF Len(list) = 0 THEN ""
    ELSE IF Len(list) = 1 THEN list[1]
    ELSE list[1] \o sep \o Join(sep, Tail(list))

\* str(results) for a list of dicts, each dict a sequence of <<key, repr>>
PyDictText(row) ==
    "{" \o Join(", ", [i \in 1..Len(row) |->
                          "'" \o row[i][1] \o "': " \o row[i][2]]) \o "}"
PyListText(rows) ==
    "[" \o Join(", ", [i \in 1..Len(rows) |-> PyDictText(rows[i])]) \o "]"

\* dict(row) for the rows of a table: the column names with the values
RowDicts(table) ==
    [i \in 1..Len(table.rows) |->
        [j \in 1..Len(table.columns) |->
            <<table.columns[j], table.rows[i][j]>>]]

\* the outcome of cursor.execute: the exception if any, the database as the
\* statement leaves it, whether the sqlite3 module opened a transaction for
\* it (INSERT, UPDATE, DELETE, REPLACE), the rows to fetch and the rowcount
SqlDone(db, transaction, rows, rowcount) ==
    [exc |-> "", message |-> "", db |-> db, transaction |-> transaction,
     rows |-> rows, rowcount |-> rowcount]
SqlError(exc, message, db) ==
    [exc |-> exc, message |-> message, db |-> db, transaction |-> FALSE,
     rows |-> <<>>, rowcount |-> -1]
NoSuchTable(db) == SqlError("sqlite3.OperationalError", "no such table: t", db)

\* sqlite3 executing one statement on the database; sql is the statement
\* without surrounding whitespace and in upper case
Sqlite3Statement(db, sql, statement) ==
    LET has == "t" \in DOMAIN db
        insert(db0) ==
            IF ~has THEN NoSuchTable(db0)
            ELSE IF Len(db0["t"].columns) # 1
            THEN SqlError("sqlite3.OperationalError",
                          "table t has 2 columns but 1 values were supplied",
                          db0)
            ELSE SqlDone([db0 EXCEPT !["t"].rows = Append(@, <<"1">>)],
                         TRUE, <<>>, 1)
    IN  CASE sql = "" -> SqlDone(db, FALSE, <<>>, -1)
          [] sql = "SELECT 1" -> SqlDone(db, FALSE, << << <<"1", "1">> >> >>, -1)
          [] sql = "WITH C AS (SELECT 1) SELECT * FROM C" ->
                SqlDone(db, FALSE, << << <<"1", "1">> >> >>, -1)
          [] sql = "SELECT * FROM T" ->
                IF has THEN SqlDone(db, FALSE, RowDicts(db["t"]), -1)
                ELSE NoSuchTable(db)
          [] sql = "SELECT NAME FROM SQLITE_MASTER WHERE TYPE='TABLE'" ->
                SqlDone(db, FALSE,
                        IF has THEN << << <<"name", "'t'">> >> >> ELSE <<>>, -1)
          [] sql = "PRAGMA TABLE_INFO(T)" ->
                SqlDone(db, FALSE,
                        IF has
                        THEN [j \in 1..Len(db["t"].columns) |->
                                 << <<"cid", Decimal(j - 1)>>,
                                    <<"name", "'" \o db["t"].columns[j] \o "'">> >>]
                        ELSE <<>>, -1)
          [] sql = "PRAGMA TABLE_INFO(U)" -> SqlDone(db, FALSE, <<>>, -1)
          [] sql = "INSERT INTO T VALUES (1)" -> insert(db)
          [] sql = "REPLACE INTO T VALUES (1)" -> insert(db)
          [] sql = "UPDATE T SET X = 2" ->
                IF ~has THEN NoSuchTable(db)
                ELSE SqlDone([db EXCEPT !["t"].rows =
                                 [i \in 1..Len(@) |-> [@[i] EXCEPT ![1] = "2"]]],
                             TRUE, <<>>, Len(db["t"].rows))
          [] sql = "DELETE FROM T" ->
                IF ~has THEN NoSuchTable(db)
                ELSE SqlDone([db EXCEPT !["t"].rows = <<>>], TRUE, <<>>,
                             Len(db["t"].rows))
          [] sql = "CREATE TABLE T (X)" ->
                IF has
                THEN SqlError("sqlite3.OperationalError",
                              "table t already exists", db)
                ELSE SqlDone(Put(db, "t", [columns |-> <<"x">>, rows |-> <<>>]),
                             FALSE, <<>>, -1)
          [] sql = "DROP TABLE T" ->
                IF ~has THEN NoSuchTable(db)
                ELSE SqlDone([n \in (DOMAIN db) \ {"t"} |-> db[n]],
                             FALSE, <<>>, -1)
          [] sql = "ALTER TABLE T ADD Y" ->
                IF ~has THEN NoSuchTable(db)
                ELSE IF Len(db["t"].columns) > 1
                THEN SqlError("sqlite3.OperationalError",
                              "duplicate column name: y", db)
                ELSE SqlDone([db EXCEPT
                                 !["t"].columns = Append(@, "y"),
                                 !["t"].rows =
                                     [i \in 1..Len(@) |-> Append(@[i], "None")]],
                             FALSE, <<>>, -1)
          [] OTHER -> SqlError("sqlite3.OperationalError",
                               "near \"" \o Strip(statement)
                                   \o "\": syntax error", db)
\* cursor.execute(statement): keywords and names are case-insensitive and
\* surrounding whitespace is ignored
Sqlite3Execute(db, statement) ==
    Sqlite3Statement(db, Upper(Strip(statement)), statement)

\* the statements after which _execute_query commits
CommittedPrefixes ==
    {"INSERT", "UPDATE", "DELETE", "CREATE", "DROP", "ALTER"}
\* what _execute_query makes of the executed statement r: it commits and
\* reports the row count after a statement of the committed kinds, else it
\* fetches the rows; closing the connection drops an open transaction
CommitOrFetch(r, db, sql) ==
    IF r.exc # "" THEN [r EXCEPT !.db = db]
    ELSE IF \E prefix \in CommittedPrefixes : StartsWith(sql, prefix)
    THEN [r EXCEPT !.rows = << << <<"affected_rows",
                                    Decimal(r.rowcount)>> >> >>]
    ELSE [r EXCEPT !.db = IF r.transaction THEN db ELSE r.db]
\* SqliteDatabase._execute_query: [exc, message, db, rows]
ExecuteQuery(db, sql_query) ==
    CommitOrFetch(Sqlite3Execute(db, sql_query), db, Upper(Strip(sql_query)))

\* a mutation of SynthesizeMemo: the memo holds the latest insight only
SynthesizeMemo_latest_only(list) ==
    IF Len(list) = 0
    THEN "No business insights have been discovered yet."
    ELSE "Business Intelligence Memo\n\n" \o "Key Insights Discovered:\n\n"
         \o "- " \o list[Len(list)]
\* SqliteDatabase._synthesize_memo (the two chart symbols around the title
\* are left out)
SynthesizeMemo(list) ==
    IF Len(list) = 0
    THEN "No business insights have been discovered yet."
    ELSE "Business Intelligence Memo\n\n" \o "Key Insights Discovered:\n\n"
         \o Join("\n", [i \in 1..Len(list) |-> "- " \o list[i]])
         \o (IF Len(list) > 1
             THEN "\nSummary:\n" \o "Analysis has revealed "
                  \o Decimal(Len(list))
                  \o " key business insights that suggest opportunities for strategic optimization and growth."
             ELSE "")

\* the state a handler leaves and what it answers: an exception that
\* leaves the handler, or the text of the one content it returns; with the
\* statements it handed to cursor.execute
SqlOutcome(exc, text, db, list, sent) ==
    [exc |-> exc, text |-> text, db |-> db, insights |-> list, sent |-> sent,
     executed |-> <<>>]

\* the outcome of a tool that ran a statement with outcome r: the error
\* raised on, or the fixed text, or str(results)
QueryOutcome(r, statement, fixed, db, list, sent) ==
    [(IF r.exc # "" THEN SqlOutcome(r.exc, r.message, db, list, sent)
      ELSE SqlOutcome("", IF fixed # "" THEN fixed ELSE PyListText(r.rows),
                      r.db, list, sent))
        EXCEPT !.executed = <<statement>>]

\* a mutation of QueryTool: read_query runs any statement
QueryTool_unchecked_read(name, sql_query, stripped, db, list, sent) ==
    LET raise(message) == SqlOutcome("ValueError", message, db, list, sent)
        run(fixed) ==
            QueryOutcome(ExecuteQuery(db, sql_query), sql_query, fixed,
                         db, list, sent)
    IN  IF name = "read_query"
        THEN run("")
        ELSE IF name = "write_query"
        THEN IF StartsWith(stripped, "SELECT")
             THEN raise("SELECT queries are not allowed for write_query")
             ELSE run("")
        ELSE IF ~StartsWith(stripped, "CREATE TABLE")
             THEN raise("Only CREATE TABLE statements are allowed")
             ELSE run("Table created successfully")
\* read_query, write_query and create_table, given arguments["query"] and
\* its .strip().upper()
QueryTool(name, sql_query, stripped, db, list, sent) ==
    LET raise(message) == SqlOutcome("ValueError", message, db, list, sent)
        run(fixed) ==
            QueryOutcome(ExecuteQuery(db, sql_query), sql_query, fixed,
                         db, list, sent)
    IN  IF name = "read_query"
        THEN IF ~StartsWith(stripped, "SELECT")
             THEN raise("Only SELECT queries are allowed for read_query")
             ELSE run("")
        ELSE IF name = "write_query"
        THEN IF StartsWith(stripped, "SELECT")
             THEN raise("SELECT queries are not allowed for write_query")
             ELSE run("")
        ELSE IF ~StartsWith(stripped, "CREATE TABLE")
             THEN raise("Only CREATE TABLE statements are allowed")
             ELSE run("Table created successfully")

\* the try block of handle_call_tool; `arguments` is a dict, empty for None
\* as well; send_ok tells whether session.send_resource_updated succeeds
CallToolBody(name, arguments, db, list, sent, send_ok) ==
    LET raise(exc, message) == SqlOutcome(exc, message, db, list, sent)
        run(statement) ==
            QueryOutcome(ExecuteQuery(db, statement), statement, "",
                         db, list, sent)
    IN  IF name = "list_tables"
        THEN run("SELECT name FROM sqlite_master WHERE type='table'")
        ELSE IF name = "describe_table"
        THEN IF "table_name" \notin DOMAIN arguments
             THEN raise("ValueError", "Missing table_name argument")
             ELSE run("PRAGMA table_info(" \o arguments["table_name"] \o ")")
        ELSE IF name = "append_insight"
        THEN IF "insight" \notin DOMAIN arguments
             THEN raise("ValueError", "Missing insight argument")
             ELSE IF ~send_ok
             THEN SqlOutcome("Exception", "notification failed", db,
                             Append(list, arguments["insight"]), sent)
             ELSE SqlOutcome("", "Insight added to memo", db,
                             Append(list, arguments["insight"]),
                             Append(sent, "memo://insights"))
        ELSE IF DOMAIN arguments = {}
        THEN raise("ValueError", "Missing arguments")
        ELSE IF name \in {"read_query", "write_query", "create_table"}
        THEN IF "query" \notin DOMAIN arguments
             THEN raise("KeyError", "'query'")
             ELSE QueryTool(name, arguments["query"],
                            Upper(Strip(arguments["query"])), db, list, sent)
        ELSE raise("ValueError", "Unknown tool: " \o name)

\* a mutation of CatchErrors: only sqlite3 errors are caught
CatchErrors_sqlite_only(o) ==
    IF o.exc = "sqlite3.OperationalError"
    THEN [o EXCEPT !.exc = "", !.text = "Database error: " \o o.text]
    ELSE o
\* the two except clauses of handle_call_tool
CatchErrors(o) ==
    IF o.exc = "" THEN o
    ELSE IF o.exc = "sqlite3.OperationalError"
    THEN [o EXCEPT !.exc = "", !.text = "Database error: " \o o.text]
    ELSE [o EXCEPT !.exc = "", !.text = "Error: " \o o.text]
\* handle_call_tool
handle_call_tool(name, arguments, db, list, sent, send_ok) ==
    CatchErrors(CallToolBody(name, arguments, db, list, sent, send_ok))

\* the scheme of a URL
UrlScheme(uri) ==
    LET marks == {k \in 1..(Len(uri) - 2) : SubSeq(uri, k, k + 2) = "://"}
    IN  IF marks = {} THEN ""
        ELSE SubSeq(uri, 1, (CHOOSE k \in marks : \A j \in marks : k <= j) - 1)
\* handle_read_resource(uri): [exc, text]
handle_read_resource(uri, list) ==
    IF UrlScheme(uri) # "memo"
    THEN [exc |-> "ValueError",
          text |-> "Unsupported URI scheme: " \o UrlScheme(uri),
          executed |-> <<>>]
    ELSE LET path == Replace(uri, "memo://", "")
         IN  IF path # "insights"
             THEN [exc |-> "ValueError",
                   text |-> "Unknown resource path: " \o path,
                   executed |-> <<>>]
             ELSE [exc |-> "", text |-> SynthesizeMemo(list),
                   executed |-> <<>>]

QueryTools == {"read_query", "write_query", "create_table"}
Statements ==
    {"SELECT * FROM t", "  select * from t\n", "SELECT 1", "SELECTED",
     "WITH c AS (SELECT 1) SELECT * FROM c",
     "INSERT INTO t VALUES (1)", "REPLACE INTO t VALUES (1)",
     "UPDATE t SET x = 2", " delete from t", "DROP TABLE t",
     "CREATE TABLE t (x)", "ALTER TABLE t ADD y", ""}
SqlRequest(name, arguments) == [name |-> name, arguments |-> arguments]
\* the tool calls of a client that works on the database
SqlRequests ==
    {SqlRequest(n, [query |-> q]) : n \in QueryTools, q \in Statements}
    \cup {SqlRequest(n, a) : n \in QueryTools,
                             a \in {EmptyDict, [table_name |-> "t"]}}
    \cup {SqlRequest("list_tables", EmptyDict)}
    \cup {SqlRequest("describe_table", a) :
             a \in {EmptyDict, [table_name |-> "t"], [table_name |-> "u"]}}
    \cup {SqlRequest("append_insight", a) :
             a \in {EmptyDict, [insight |-> "sales are up"]}}
    \cup {SqlRequest("drop_table", a) :
             a \in {EmptyDict, [query |-> "DROP TABLE t"]}}
InsightTexts == {"sales are up", "returns are down", ""}
\* the tool calls of a client that writes the memo
MemoRequests ==
    {SqlRequest("append_insight", [insight |-> i]) : i \in InsightTexts}
    \cup {SqlRequest("append_insight", EmptyDict),
          SqlRequest("create_table", [query |-> "CREATE TABLE t (x)"]),
          SqlRequest("read_query", [query |-> "SELECT * FROM t"])}
ResourceUris == {"memo://insights", "memo://other", "file://insights"}
\* whether send_resource_updated succeeds, for the tools that do not send
\* there is nothing to choose
SendOutcomes(name) == IF name = "append_insight" THEN BOOLEAN ELSE {TRUE}

SqlReturned(name, arguments, send_ok, o) ==
        /\ Len(o.insights) <= MaxInsights
        /\ \A n \in DOMAIN o.db : Len(o.db[n].rows) <= MaxSqlRows
        /\ sql_call' = [op |-> "call_tool", name |-> name,
                        arguments |-> arguments, send_ok |-> send_ok]
        /\ sql_ret' = [exc |-> o.exc, text |-> o.text,
                       executed |-> o.executed]
        /\ database' = o.db
        /\ insights' = o.insights
        /\ notifications' = o.sent
        /\ UNCHANGED <<datagen_vars, time_vars, notes_vars, unique_id_vars,
                   git_vars, sentry_vars, fetch_vars>>
HandleCallTool(name, arguments, send_ok) ==
    SqlReturned(name, arguments, send_ok,
                handle_call_tool(name, arguments, database, insights,
                                 notifications, send_ok))

HandleReadResource(uri) ==
    /\ sql_call' = [op |-> "read_resource", uri |-> uri]
    /\ sql_ret' = handle_read_resource(uri, insights)
    /\ UNCHANGED <<database, insights, notifications>>
    /\ UNCHANGED <<datagen_vars, time_vars, notes_vars, unique_id_vars,
                   git_vars, sentry_vars, fetch_vars>>

InitSqlite == InitTime
NextSqlite ==
    \/ \E tool_call \in SqlRequests :
          \E send_ok \in SendOutcomes(tool_call.name) :
              HandleCallTool(tool_call.name, tool_call.arguments, send_ok)
    \/ \E uri \in ResourceUris : HandleReadResource(uri)
SpecSqlite == InitSqlite /\ [][NextSqlite]_vars

InitMemo == InitTime
NextMemo ==
    \/ \E tool_call \in MemoRequests :
          \E send_ok \in SendOutcomes(tool_call.name) :
              HandleCallTool(tool_call.name, tool_call.arguments, send_ok)
    \/ \E uri \in ResourceUris : HandleReadResource(uri)
SpecMemo == InitMemo /\ [][NextMemo]_vars

(***************************************************************************)
(* The Sentry server's extract_issue_id, with urlparse as it uses it.      *)
(***************************************************************************)
MinOf(set) == CHOOSE x \in set : \A y \in set : x <= y
MaxOf(set) == CHOOSE x \in set : \A y \in set : x >= y
\* the positions of str, from `from` on, that hold one of chars
Positions(str, chars, from) ==
    {k \in from..Len(str) : CharAt(str, k) \in chars}
\* the first of them, Len(str) + 1 when there is none
IndexOfAny(str, chars, from) ==
    IF Positions(str, chars, from) = {} THEN Len(str) + 1
    ELSE MinOf(Positions(str, chars, from))
\* str[a:b] with the positions counted from 1, b included
Slice(str, a, b) == IF a > b THEN "" ELSE SubSeq(str, a, b)

LowerTable ==
    [ch \in {CharAt(UpperCase, k) : k \in 1..26} |->
        CharAt(LowerCase, CHOOSE k \in 1..26 : CharAt(UpperCase, k) = ch)]
LowerChar(ch) == IF ch \in DOMAIN LowerTable THEN LowerTable[ch] ELSE ch
RECURSIVE LowerFrom(_, _)
LowerFrom(str, i) ==
    IF i > Len(str) THEN ""
    ELSE LowerChar(CharAt(str, i)) \o LowerFrom(str, i + 1)
\* s.lower()
Lower(str) == LowerFrom(str, 1)

SchemeChars ==
    {CharAt(LowerCase, k) : k \in 1..26} \cup {CharAt(UpperCase, k) : k \in 1..26}
        \cup {Digit(k) : k \in 0..9} \cup {"+", "-", "."}
\* urllib.parse.urlparse(url): [exc, scheme, netloc, path]
UrlParse(url) ==
    LET colon == IndexOfAny(url, {":"}, 1)
        has_scheme ==
            /\ 1 < colon /\ colon <= Len(url)
            /\ ~IsDigit(CharAt(url, 1))
            /\ \A k \in 1..(colon - 1) : CharAt(url, k) \in SchemeChars
        rest == IF has_scheme THEN colon + 1 ELSE 1
        has_netloc == Slice(url, rest, rest + 1) = "//" /\ rest + 1 <= Len(url)
        delim == IndexOfAny(url, {"/", "?", "#"}, rest + 2)
        netloc == IF has_netloc THEN Slice(url, rest + 2, delim - 1) ELSE ""
        path_start == IF has_netloc THEN delim ELSE rest
        path_end == IndexOfAny(url, {"?", "#"}, path_start) - 1
        opened == Positions(netloc, {"["}, 1) # {}
        closed == Positions(netloc, {"]"}, 1) # {}
    IN  IF opened # closed
        THEN [exc |-> "ValueError", scheme |-> "", netloc |-> "", path |-> ""]
        ELSE [exc |-> "",
              scheme |-> IF has_scheme THEN Lower(Slice(url, 1, colon - 1))
                         ELSE "",
              netloc |-> netloc,
              path |-> Slice(url, path_start, path_end)]

\* ParseResult.hostname, "" for None
Hostname(netloc) ==
    LET ats == Positions(netloc, {"@"}, 1)
        hostinfo == IF ats = {} THEN netloc
                    ELSE Slice(netloc, MaxOf(ats) + 1, Len(netloc))
        open == IndexOfAny(hostinfo, {"["}, 1)
    IN  IF open <= Len(hostinfo)
        THEN Lower(Slice(hostinfo, open + 1,
                         IndexOfAny(hostinfo, {"]"}, 1) - 1))
        ELSE Lower(Slice(hostinfo, 1, IndexOfAny(hostinfo, {":"}, 1) - 1))

\* s.strip(ch)
StripChar(str, ch) ==
    LET kept == {k \in 1..Len(str) : CharAt(str, k) # ch}
    IN  IF kept = {} THEN "" ELSE SubSeq(str, MinOf(kept), MaxOf(kept))
\* s.split(ch)
Split(str, ch) ==
    LET ends == Positions(str, {ch}, 1) \cup {Len(str) + 1}
        starts == {1} \cup {k + 1 : k \in Positions(str, {ch}, 1)}
        start(i) == CHOOSE a \in starts :
                        Cardinality({b \in starts : b < a}) = i - 1
    IN  [i \in 1..Cardinality(starts) |->
            Slice(str, start(i), MinOf({e \in ends : e >= start(i)}) - 1)]
\* s.isdigit(), for the characters of ASCII
IsDigitString(str) ==
    Len(str) > 0 /\ \A k \in 1..Len(str) : IsDigit(CharAt(str, k))

SentryError(message) ==
    [exc |-> "SentryError", message |-> message, value |-> ""]
\* the part of extract_issue_id after the URL has been taken apart
IssueIdOf(issue_id) ==
    IF ~IsDigitString(issue_id)
    THEN SentryError("Invalid Sentry issue ID. Must be a numeric value.")
    ELSE [exc |-> "", message |-> "", value |-> issue_id]
\* the URL branch of extract_issue_id, given urlparse's result
IssueIdOfUrl(parsed_url) ==
    LET path_parts == Split(StripChar(parsed_url.path, "/"), "/")
    IN  IF parsed_url.exc # ""
        THEN [exc |-> parsed_url.exc, message |-> "Invalid IPv6 URL",
              value |-> ""]
        ELSE IF Hostname(parsed_url.netloc) = ""
                \/ ~EndsWith(Hostname(parsed_url.netloc), ".sentry.io")
        THEN SentryError(
                 "Invalid Sentry URL. Must be a URL ending with .sentry.io")
        ELSE IF Len(path_parts) < 2 \/ path_parts[1] # "issues"
        THEN SentryError(
                 "Invalid Sentry issue URL. Path must contain '/issues/{issue_id}'")
        ELSE IssueIdOf(path_parts[Len(path_parts)])
\* extract_issue_id(issue_id_or_url): [exc, message, value]
extract_issue_id(issue_id_or_url) ==
    IF issue_id_or_url = ""
    THEN SentryError("Missing issue_id_or_url argument")
    ELSE IF StartsWith(issue_id_or_url, "http://")
            \/ StartsWith(issue_id_or_url, "https://")
    THEN IssueIdOfUrl(UrlParse(issue_id_or_url))
    ELSE IssueIdOf(issue_id_or_url)

\* the arguments tried: plain IDs, and URLs put together from parts
IssueIds == {"", "12345", "0", "12a", "-1", " 12", "issues/12", "1.5"}
UrlSchemes == {"http://", "https://", "HTTPS://", "ftp://"}
UrlHosts ==
    {"acme.sentry.io", "ACME.Sentry.IO", "user@acme.sentry.io:443",
     "sentry.io", "example.com", "acme.sentry.io.example.com", "",
     "[acme.sentry.io"}
UrlPaths ==
    {"", "/", "/issues", "/issues/", "/issues/12345", "/issues/12345/",
     "/issues/12a", "/issues/12345/events", "/projects/issues/7",
     "/issues//", "/issues/12345/events/678", "/issues/12345/events/"}
UrlEndings == {"", "?project=1", "#top"}
IssueArguments ==
    IssueIds \cup {scheme \o host \o path \o ending :
                      scheme \in UrlSchemes, host \in UrlHosts,
                      path \in UrlPaths, ending \in UrlEndings}

ExtractIssueId(issue_id_or_url) ==
    /\ issue_ret = NoIssueRet
    /\ issue_arg' = issue_id_or_url
    /\ issue_ret' = extract_issue_id(issue_id_or_url)
    /\ UNCHANGED <<datagen_vars, time_vars, notes_vars, unique_id_vars,
                   git_vars, sqlite_vars, fetch_vars>>
\* the caller has the ID or the exception
ExtractIssueIdDone ==
    /\ issue_ret # NoIssueRet
    /\ issue_arg' = ""
    /\ issue_ret' = NoIssueRet
    /\ UNCHANGED <<datagen_vars, time_vars, notes_vars, unique_id_vars,
                   git_vars, sqlite_vars, fetch_vars>>

InitSentry == InitTime
NextSentry ==
    \/ /\ issue_ret = NoIssueRet
       /\ \E issue_id_or_url \in IssueArguments :
             ExtractIssueId(issue_id_or_url)
    \/ ExtractIssueIdDone
SpecSentry == InitSentry /\ [][NextSentry]_vars

(***************************************************************************)
(* The fetch server: the fetch tool with its robots.txt check, the fetch   *)
(* prompt, and the HTTP requests they make.                                *)
(***************************************************************************)
DEFAULT_USER_AGENT_AUTONOMOUS ==
    "ModelContextProtocol/1.0 (Autonomous; +https://github.com/modelcontextprotocol/servers)"
DEFAULT_USER_AGENT_MANUAL ==
    "ModelContextProtocol/1.0 (User-Specified; +https://github.com/modelcontextprotocol/servers)"

\* sub in str
Contains(str, sub) ==
    \E k \in 1..(Len(str) - Len(sub) + 1) :
        SubSeq(str, k, k + Len(sub) - 1) = sub

\* get_robots_txt_url(url): [exc, url]; urlunparse leaves out the "//" when
\* there is no netloc and the ":" when there is no scheme
get_robots_txt_url(url) ==
    LET parsed == UrlParse(url)
    IN  IF parsed.exc # "" THEN [exc |-> parsed.exc, url |-> ""]
        ELSE [exc |-> "",
              url |-> (IF parsed.scheme # "" THEN parsed.scheme \o ":" ELSE "")
                      \o (IF parsed.netloc # "" THEN "//" \o parsed.netloc
                          ELSE "")
                      \o "/robots.txt"]

\* a line of a robots.txt file
RobotsLine(kind, value) == [kind |-> kind, value |-> value]
\* the lines that are left when the comment lines are taken out
WithoutComments(lines) ==
    LET IsRule(line) == line.kind # "comment" IN SelectSeq(lines, IsRule)

\* Protego.parse(text).can_fetch(url, user_agent): the group of the most
\* specific User-agent line that names the agent, else the group of "*";
\* in it the longest matching Allow or Disallow decides, Allow on a tie
CanFetch(lines, url, user_agent) ==
    LET path == IF UrlParse(url).exc # "" \/ UrlParse(url).path = "" THEN "/"
                ELSE UrlParse(url).path
        agent_lines == {i \in 1..Len(lines) : lines[i].kind = "user-agent"}
        AgentOf(i) == lines[MaxOf({j \in agent_lines : j < i})].value
        named == {lines[i].value : i \in {j \in agent_lines :
                      /\ lines[j].value # "*"
                      /\ Contains(Lower(user_agent), Lower(lines[j].value))}}
        agent == IF named # {}
                 THEN CHOOSE a \in named : \A b \in named : Len(a) >= Len(b)
                 ELSE "*"
        rules == {i \in 1..Len(lines) :
                     /\ lines[i].kind \in {"allow", "disallow"}
                     /\ lines[i].value # ""
                     /\ \E j \in agent_lines : j < i
                     /\ AgentOf(i) = agent
                     /\ StartsWith(path, lines[i].value)}
        longest == MaxOf({Len(lines[i].value) : i \in rules})
    IN  \/ rules = {}
        \/ \E i \in rules :
              Len(lines[i].value) = longest /\ lines[i].kind = "allow"

McpError(message) == [exc |-> "McpError", text |-> message]
\* a mutation of RobotsVerdict: only a connection failure stops the fetch
RobotsVerdict_trusting(response, url, user_agent) ==
    IF response.error # ""
    THEN McpError("Failed to fetch robots.txt " \o get_robots_txt_url(url).url
                      \o " due to a connection issue")
    ELSE NoFetchRet
\* check_may_autonomously_fetch_url after the robots.txt request: the
\* McpError it raises, NoFetchRet when it returns
RobotsVerdict(response, url, user_agent) ==
    IF response.error # ""
    THEN McpError("Failed to fetch robots.txt " \o get_robots_txt_url(url).url
                      \o " due to a connection issue")
    ELSE IF response.status \in {401, 403}
    THEN McpError("When fetching robots.txt ("
                      \o get_robots_txt_url(url).url \o "), received status "
                      \o Decimal(response.status)
                      \o " so assuming that autonomous fetching is not allowed, the user can try manually fetching by using the fetch prompt")
    ELSE IF 400 <= response.status /\ response.status < 500
    THEN NoFetchRet
    ELSE IF ~CanFetch(WithoutComments(response.robots), url, user_agent)
    THEN McpError("The sites robots.txt (" \o get_robots_txt_url(url).url
                      \o "), specifies that autonomous fetching of this page is not allowed")
    ELSE NoFetchRet

\* fetch_url after its request: the McpError it raises or the page text
FetchResult(response, url) ==
    IF response.error # "" THEN McpError("Failed to fetch " \o url)
    ELSE IF response.status >= 400
    THEN McpError("Failed to fetch " \o url \o " - status code "
                      \o Decimal(response.status))
    ELSE [exc |-> "", text |-> "<markdown>"]

FetchUrls ==
    {"", "https://example.com/private/page", "https://example.com",
     "http://example.com:8080/public?x=1", "example.com/page",
     "https://[example.com/page"}
RobotsFiles ==
    {<<>>,
     <<RobotsLine("user-agent", "*"), RobotsLine("disallow", "/")>>,
     <<RobotsLine("comment", "# keep out"),
       RobotsLine("user-agent", "*"), RobotsLine("disallow", "/private")>>,
     <<RobotsLine("user-agent", "*"), RobotsLine("disallow", "/"),
       RobotsLine("user-agent", "ModelContextProtocol"),
       RobotsLine("allow", "/")>>,
     <<RobotsLine("user-agent", "modelcontextprotocol"),
       RobotsLine("disallow", "/"), RobotsLine("allow", "/public")>>}
ConnectError == [error |-> "ConnectError", status |-> 0, robots |-> <<>>]
Response(status, lines) == [error |-> "", status |-> status, robots |-> lines]
\* what the network may answer to a request for the URL
RobotsAnswers(url) ==
    IF ~StartsWith(url, "http://") /\ ~StartsWith(url, "https://")
    THEN {[ConnectError EXCEPT !.error = "UnsupportedProtocol"]}
    ELSE {ConnectError}
         \cup {Response(status, <<>>) : status \in {301, 401, 403, 404}}
         \cup {Response(status, lines) : status \in {200, 500},
                                         lines \in RobotsFiles}
PageAnswers(url) ==
    IF ~StartsWith(url, "http://") /\ ~StartsWith(url, "https://")
    THEN {[ConnectError EXCEPT !.error = "UnsupportedProtocol"]}
    ELSE {ConnectError, Response(200, <<>>), Response(404, <<>>)}

FetchRaise(outcome) ==
    /\ fetch_ret' = outcome
    /\ fetch_pc' = "done"

\* serve.call_tool up to its first await
FetchTool(url) ==
    /\ fetch_pc = "idle"
    /\ fetch_call' = [handler |-> "call_tool", url |-> url]
    /\ IF url = ""
       THEN FetchRaise(McpError("URL is required"))
       ELSE /\ fetch_pc' = IF ignore_robots_txt THEN "fetch" ELSE "robots"
            /\ UNCHANGED fetch_ret
    /\ UNCHANGED <<ignore_robots_txt, http_log, robots_response>>
    /\ UNCHANGED <<datagen_vars, time_vars, notes_vars, unique_id_vars,
                   git_vars, sqlite_vars, sentry_vars>>

\* serve.get_prompt up to its await
FetchPrompt(url) ==
    /\ fetch_pc = "idle"
    /\ fetch_call' = [handler |-> "get_prompt", url |-> url]
    /\ IF url = ""
       THEN FetchRaise(McpError("URL is required"))
       ELSE /\ fetch_pc' = "fetch"
            /\ UNCHANGED fetch_ret
    /\ UNCHANGED <<ignore_robots_txt, http_log, robots_response>>
    /\ UNCHANGED <<datagen_vars, time_vars, notes_vars, unique_id_vars,
                   git_vars, sqlite_vars, sentry_vars>>

\* check_may_autonomously_fetch_url up to the answer to client.get
RequestRobotsTxt ==
    /\ fetch_pc = "robots"
    /\ LET robot_txt_url == get_robots_txt_url(fetch_call.url)
       IN  IF robot_txt_url.exc # ""
           THEN /\ FetchRaise([exc |-> robot_txt_url.exc,
                               text |-> "Invalid IPv6 URL"])
                /\ UNCHANGED http_log
           ELSE /\ http_log' = Append(http_log, robot_txt_url.url)
                /\ fetch_pc' = "robots_sent"
                /\ UNCHANGED fetch_ret
    /\ UNCHANGED <<ignore_robots_txt, fetch_call, robots_response>>
    /\ UNCHANGED <<datagen_vars, time_vars, notes_vars, unique_id_vars,
                   git_vars, sqlite_vars, sentry_vars>>

\* the rest of check_may_autonomously_fetch_url
RobotsTxtAnswered(response) ==
    /\ fetch_pc = "robots_sent"
    /\ robots_response' = response
    /\ LET verdict == RobotsVerdict(response, fetch_call.url,
                                    DEFAULT_USER_AGENT_AUTONOMOUS)
       IN  IF verdict.exc = "McpError"
           THEN FetchRaise(verdict)
           ELSE /\ fetch_pc' = "fetch"
                /\ UNCHANGED fetch_ret
    /\ UNCHANGED <<ignore_robots_txt, fetch_call, http_log>>
    /\ UNCHANGED <<datagen_vars, time_vars, notes_vars, unique_id_vars,
                   git_vars, sqlite_vars, sentry_vars>>

\* fetch_url up to the answer to client.get
RequestUrl ==
    /\ fetch_pc = "fetch"
    /\ http_log' = Append(http_log, fetch_call.url)
    /\ fetch_pc' = "fetch_sent"
    /\ UNCHANGED <<ignore_robots_txt, fetch_call, robots_response, fetch_ret>>
    /\ UNCHANGED <<datagen_vars, time_vars, notes_vars, unique_id_vars,
                   git_vars, sqlite_vars, sentry_vars>>

\* the rest of fetch_url and of the handler: call_tool lets the McpError
\* through, get_prompt returns its text as the message
UrlAnswered(response) ==
    /\ fetch_pc = "fetch_sent"
    /\ LET page == FetchResult(response, fetch_call.url)
       IN  fetch_ret' =
               IF page.exc # ""
               THEN IF fetch_call.handler = "get_prompt"
                    THEN [exc |-> "", text |-> page.text]
                    ELSE page
               ELSE IF fetch_call.handler = "get_prompt"
               THEN page
               ELSE [exc |-> "",
                     text |-> "Contents of " \o fetch_call.url \o ":\n"
                              \o page.text]
    /\ fetch_pc' = "done"
    /\ UNCHANGED <<ignore_robots_txt, fetch_call, http_log, robots_response>>
    /\ UNCHANGED <<datagen_vars, time_vars, notes_vars, unique_id_vars,
                   git_vars, sqlite_vars, sentry_vars>>

\* the client has the answer; the server takes the next request
FetchDone ==
    /\ fetch_pc = "done"
    /\ fetch_pc' = "idle"
    /\ fetch_call' = NoFetchCall
    /\ http_log' = <<>>
    /\ robots_response' = NoResponse
    /\ fetch_ret' = NoFetchRet
    /\ UNCHANGED ignore_robots_txt
    /\ UNCHANGED <<datagen_vars, time_vars, notes_vars, unique_id_vars,
                   git_vars, sqlite_vars, sentry_vars>>

InitFetch ==
    /\ IdleGeneratorAndTime
    /\ IdleGit /\ IdleSqlite /\ IdleSentry
    /\ IdleNotes /\ IdleUniqueId
    /\ \E ignore \in BOOLEAN : IdleFetch(ignore)
NextFetch ==
    \/ /\ fetch_pc = "idle"
       /\ \E url \in FetchUrls : FetchTool(url)
    \/ /\ fetch_pc = "idle"
       /\ \E url \in FetchUrls : FetchPrompt(url)
    \/ RequestRobotsTxt
    \/ /\ fetch_pc = "robots_sent"
       /\ \E response \in RobotsAnswers(http_log[Len(http_log)]) :
             RobotsTxtAnswered(response)
    \/ RequestUrl
    \/ /\ fetch_pc = "fetch_sent"
       /\ \E response \in PageAnswers(fetch_call.url) : UrlAnswered(response)
    \/ FetchDone
SpecFetch == InitFetch /\ [][NextFetch]_vars

(***************************************************************************)
(* Properties of one generate_synthetic_data call (SpecColumns).           *)
(***************************************************************************)
\* the call returned
CallReturned == call # NoCall /\ ret.exc = ""
ColumnSpec(c) == call.schema.spec[c]
IsIdColumnName(c) == EndsWith(c, "_id")
HasBounds(col_spec) == "min" \in DOMAIN col_spec /\ "max" \in DOMAIN col_spec
IsIntegerType(col_spec) == Get(col_spec, "type", "") \in {"int", "integer"}

\* C4: in the returned data every non-correlated column whose name ends in
\* "_id" holds pairwise distinct values, whatever prefix or generator its
\* spec names.
C4_IdColumnsAreDistinct ==
    CallReturned =>
        \A c \in DOMAIN call.schema.spec :
            (IsIdColumnName(c) /\ ~IsCorrelated(ColumnSpec(c)))
            => /\ c \in DOMAIN ret.data
               /\ \A i, j \in 1..Len(ret.data[c]) :
                     ret.data[c][i] = ret.data[c][j] => i = j

\* two or more IDs were returned for ID columns that name a Faker and a
\* Mimesis generator, one of them with a prefix
C4_Witness ==
    /\ CallReturned
    /\ call.schema = GeneratorIdSchema
    /\ call.rows = ColumnRows
    /\ Len(ret.data["order_id"]) >= 2
    /\ Len(ret.data["ref_id"]) >= 2

\* C5: for a non-correlated integer ID column with bounds min and max, a
\* returned value is the prefix followed by the decimal form of an n with
\* min <= n <= max when the spec has a non-empty prefix, and an integer n
\* with min <= n <= max when it has none.
C5_IdValuesAreInRange ==
    CallReturned =>
        \A c \in DOMAIN call.schema.spec :
            (/\ IsIdColumnName(c)
             /\ ~IsCorrelated(ColumnSpec(c))
             /\ IsIntegerType(ColumnSpec(c))
             /\ HasBounds(ColumnSpec(c)))
            => \A i \in 1..Len(ret.data[c]) :
                  LET v == ret.data[c][i]
                      prefix == Get(ColumnSpec(c), "prefix", "")
                      n == IF prefix = "" THEN v.n
                           ELSE DecimalValue(
                                   SubSeq(v.s, Len(prefix) + 1, Len(v.s)))
                  IN  /\ IF prefix = "" THEN v.t = "int"
                         ELSE v.t = "str" /\ StartsWith(v.s, prefix)
                      /\ ColumnSpec(c).min <= n
                      /\ n <= ColumnSpec(c).max

\* prefixed IDs were returned, the upper bound among them
C5_Witness ==
    /\ CallReturned
    /\ call.schema = PrefixSchema
    /\ call.rows >= 2
    /\ StrVal("POL-2024-" \o Decimal(SpanMax(100000))) \in Range(ret.data["policy_id"])

\* C6 as stated: whenever the call returns, the result has exactly the
\* column names of the schema as keys and every list has exactly `rows`
\* elements.
C6_ColumnsAndRows ==
    CallReturned =>
        /\ DOMAIN ret.data = DOMAIN call.schema.spec
        /\ \A c \in DOMAIN ret.data : Len(ret.data[c]) = call.rows

\* C6 amended: the above for rows >= 0; for a negative `rows` every list is
\* empty.
C6_ColumnsAndNonNegativeRows ==
    CallReturned =>
        /\ DOMAIN ret.data = DOMAIN call.schema.spec
        /\ \A c \in DOMAIN ret.data :
              Len(ret.data[c]) = IF call.rows >= 0 THEN call.rows ELSE 0

\* a table with a parent ID column, a correlated column and a plain column
\* was returned with the largest row count
C6_Witness ==
    /\ CallReturned
    /\ call.schema = TestPoliciesSchema
    /\ call.rows = ColumnRows
    /\ Len(ret.data["customer_id"]) = ColumnRows

\* an integer column in the sense of C8: type int or integer, bounds, and no
\* Faker or Mimesis generator
IsIntegerColumn(col_spec) ==
    /\ IsIntegerType(col_spec)
    /\ HasBounds(col_spec)
    /\ LET generator == Get(col_spec, "generator", "")
       IN  /\ generator # "faker"
           /\ ~StartsWith(generator, "faker.")
           /\ ~StartsWith(generator, "mimesis.")

IsIntegerWithin(v, col_spec) ==
    v.t = "int" /\ col_spec.min <= v.n /\ v.n <= col_spec.max

\* C8 as stated: every value of an integer column with bounds min and max is
\* an integer v with min <= v <= max.
C8_IntegerColumnsInRange ==
    CallReturned =>
        \A c \in DOMAIN call.schema.spec :
            IsIntegerColumn(ColumnSpec(c))
            => \A i \in 1..Len(ret.data[c]) :
                  IsIntegerWithin(ret.data[c][i], ColumnSpec(c))

\* C8 amended: the above for the integer columns that are not correlated,
\* name no generator or the generator "numpy", and are not ID columns (named
\* "id" or ending in "_id") with a prefix.
C8_PlainIntegerColumnsInRange ==
    CallReturned =>
        \A c \in DOMAIN call.schema.spec :
            (/\ IsIntegerColumn(ColumnSpec(c))
             /\ ~IsCorrelated(ColumnSpec(c))
             /\ Get(ColumnSpec(c), "generator", "") \in {"", "numpy"}
             /\ ~ (/\ IsIdColumnName(c) \/ c = "id"
                   /\ Get(ColumnSpec(c), "prefix", "") # ""))
            => \A i \in 1..Len(ret.data[c]) :
                  IsIntegerWithin(ret.data[c][i], ColumnSpec(c))

\* integer columns with and without the numpy generator were returned
C8_Witness ==
    /\ CallReturned
    /\ call.schema \in {AgeSchema, CountSchema}
    /\ call.rows = ColumnRows
    /\ \E c \in DOMAIN ret.data : Len(ret.data[c]) = ColumnRows

(***************************************************************************)
(* Properties of related tables generated directly (SpecRelations).        *)
(***************************************************************************)
\* all three tables were generated, by three calls that all returned
AllThreeGenerated ==
    /\ Len(generated) = 3
    /\ DOMAIN result = {"customers", "policies", "claims"}

UnknownTimezone(name) == name \notin DOMAIN ZoneTable

\* the timezone name a call is rejected for: the source before the target
RejectedTimezone ==
    IF query.tool = "get_current_time" THEN query.timezone
    ELSE IF UnknownTimezone(query.source_tz) THEN query.source_tz
    ELSE query.target_tz

QueryHasUnknownTimezone ==
    \/ query.tool = "get_current_time" /\ UnknownTimezone(query.timezone)
    \/ /\ query.tool = "convert_time"
       /\ \/ UnknownTimezone(query.source_tz)
          \/ UnknownTimezone(query.target_tz)

\* C9: a timezone name the database does not know is rejected with the
\* message "Invalid timezone: 'No time zone found with key <name>'", and by
\* get_current_time with an McpError.
C9_UnknownTimezoneMessage ==
    QueryHasUnknownTimezone =>
        /\ answer.exc # ""
        /\ answer.message = "Invalid timezone: 'No time zone found with key "
                            \o RejectedTimezone \o "'"
        /\ query.tool = "get_current_time" => answer.exc = "McpError"

\* the texts that are a 24-hour time: an hour 0..23 and a minute 0..59, each
\* written with one or two digits, with a colon between them
Numerals(S) == {Decimal(k) : k \in S} \cup {Pad2(k) : k \in S}
TimesOfDay == {h \o ":" \o m : h \in Numerals(0..23), m \in Numerals(0..59)}

\* C10: convert_time with two known timezones and a time string that is not
\* a 24-hour time raises ValueError with the message "Invalid time format.
\* Expected HH:MM [24-hour format]".
C10_InvalidTimeIsRejected ==
    (/\ query.tool = "convert_time"
     /\ ~UnknownTimezone(query.source_tz)
     /\ ~UnknownTimezone(query.target_tz)
     /\ query.time \notin TimesOfDay)
    => /\ answer.exc = "ValueError"
       /\ answer.message
             = "Invalid time format. Expected HH:MM [24-hour format]"

\* an hour above 23 between two known timezones was rejected
C10_Witness ==
    /\ query.tool = "convert_time"
    /\ query.source_tz = "Europe/Warsaw"
    /\ query.target_tz = "Europe/London"
    /\ query.time = "25:00"
    /\ answer.exc = "ValueError"

\* convert_time returned a result
Converted == query.tool = "convert_time" /\ answer.exc = ""

\* the fields of an ISO 8601 text "YYYY-MM-DDTHH:MM:SS+HH:MM"; utcoffset in
\* minutes
IsoFields(text) ==
    LET num(a, b) == DecimalValue(SubSeq(text, a, b))
        sign == IF CharAt(text, 20) = "-" THEN -1 ELSE 1
    IN  [year |-> num(1, 4), month |-> num(6, 7), day |-> num(9, 10),
         hour |-> num(12, 13), minute |-> num(15, 16), second |-> num(18, 19),
         utcoffset |-> sign * (num(21, 22) * 60 + num(24, 25))]

\* minutes from the start of the month to the instant the fields denote
InstantOf(f) == (f.day * 24 + f.hour) * 60 + f.minute - f.utcoffset

\* the hour and minute a time text names
NamesTime(text, h, m) ==
    text \in {x \o ":" \o y : x \in {Decimal(h), Pad2(h)},
                              y \in {Decimal(m), Pad2(m)}}

\* C11: convert_time returns a source datetime that is the current date in
\* the source zone at the given hour and minute, and a target datetime that
\* is the same instant in the target zone: the local times less their UTC
\* offsets are equal.
C11_SameInstant ==
    Converted =>
        LET source == IsoFields(answer.result.source.datetime)
            target == IsoFields(answer.result.target.datetime)
            today == (query.now.day * 24 * 60 + query.now.hour * 60
                      + query.now.minute
                      + UtcOffset(query.source_tz, query.now.month))
                     \div (24 * 60)
        IN  /\ answer.result.source.timezone = query.source_tz
            /\ answer.result.target.timezone = query.target_tz
            /\ source.year = query.now.year /\ source.month = query.now.month
            /\ source.day = today
            /\ \E h \in 0..23, m \in 0..59 :
                  /\ NamesTime(query.time, h, m)
                  /\ source.hour = h /\ source.minute = m
            /\ source.second = 0
            /\ source.utcoffset = UtcOffset(query.source_tz, query.now.month)
            /\ target.utcoffset = UtcOffset(query.target_tz, query.now.month)
            /\ target.year = source.year /\ target.month = source.month
            /\ InstantOf(source) = InstantOf(target)

\* a conversion whose target date is the day after the source date
C11_Witness ==
    /\ Converted
    /\ query.source_tz = "America/New_York"
    /\ query.target_tz = "Asia/Kathmandu"
    /\ IsoFields(answer.result.target.datetime).day
          = IsoFields(answer.result.source.datetime).day + 1

\* the text of a number of minutes in hours: whole hours with one decimal,
\* quarters of an hour with as many decimals as they need
HoursText(minutes) ==
    LET m == IF minutes < 0 THEN 0 - minutes ELSE minutes
    IN  (IF minutes < 0 THEN "-" ELSE "+") \o Decimal(m \div 60)
        \o (CASE m % 60 = 0 -> ".0"
              [] m % 60 = 15 -> ".25"
              [] m % 60 = 30 -> ".5"
              [] m % 60 = 45 -> ".75")
        \o "h"

\* C12: time_difference is the target UTC offset minus the source UTC
\* offset in hours, with a sign and the suffix "h": one decimal for whole
\* hours, at most two decimals and no trailing zero otherwise.
C12_TimeDifferenceText ==
    Converted =>
        answer.result.time_difference
            = HoursText(IsoFields(answer.result.target.datetime).utcoffset
                        - IsoFields(answer.result.source.datetime).utcoffset)

\* differences of +4.75, +0.0 and -6.0 (or -5.0) hours were returned
C12_Witness ==
    /\ Converted
    /\ \/ /\ query.source_tz = "Europe/Warsaw"
          /\ query.target_tz = "Asia/Kathmandu"
          /\ answer.result.time_difference = "+4.75h"
          /\ query.now.month = 1
       \/ /\ query.source_tz = "Europe/London"
          /\ query.target_tz = "Asia/Kolkata"
          /\ answer.result.time_difference = "+4.5h"
          /\ query.now.month = 7

\* a call_tool request the tool accepts: a known timezone, or two known
\* timezones and a time of day
AcceptableToolCall ==
    /\ query.tool = "call_tool"
    /\ \/ /\ query.name = "get_current_time"
          /\ "timezone" \in DOMAIN query.arguments
          /\ ~UnknownTimezone(query.arguments.timezone)
       \/ /\ query.name = "convert_time"
          /\ {"source_timezone", "time", "target_timezone"}
                \subseteq DOMAIN query.arguments
          /\ ~UnknownTimezone(query.arguments.source_timezone)
          /\ ~UnknownTimezone(query.arguments.target_timezone)
          /\ query.arguments.time \in TimesOfDay

\* C13: call_tool, given get_current_time with a known timezone or
\* convert_time with two known timezones and a valid time, does not raise and
\* returns one text content that holds a JSON object.
C13_CallToolReturnsJson ==
    AcceptableToolCall =>
        /\ answer.exc = ""
        /\ Len(answer.result) = 1
        /\ answer.result[1].type = "text"
        /\ CharAt(answer.result[1].text, 1) = "{"

(***************************************************************************)
(* Properties of git_checkout, checked in SpecGit.                         *)
(***************************************************************************)
CheckedOut == git_call.op = "git_checkout"
CheckoutName == git_call.args[1]
\* before the call nothing was staged or edited since the last commit
WasClean ==
    /\ git_call.repo.index = HeadTree(git_call.repo)
    /\ git_call.repo.work = git_call.repo.index
Switched ==
    /\ git_ret.exc = ""
    /\ git_ret.text = "Switched to branch '" \o CheckoutName \o "'"
    /\ repo.head = CheckoutName
Refused ==
    /\ git_ret.exc = "GitCommandError"
    /\ repo.head = git_call.repo.head

ToolCalled(name) == sql_call.op = "call_tool" /\ sql_call.name = name
ToolCalledNext(name) == sql_call'.op = "call_tool" /\ sql_call'.name = name
HasQuery(c) == "query" \in DOMAIN c.arguments

\* the keyword, in any mix of cases, follows the leading whitespace of str
BeginsWith(str, keyword) ==
    \E k \in 1..Len(str) :
        /\ \A j \in 1..(k - 1) : CharAt(str, j) \in Whitespace
        /\ k + Len(keyword) - 1 <= Len(str)
        /\ \A j \in 1..Len(keyword) :
              CharAt(str, k + j - 1)
                  \in {CharAt(keyword, j), UpperChar(CharAt(keyword, j))}

\* the failures of a call that the call itself shows
MissingArguments(c) ==
    \/ c.name = "describe_table" /\ "table_name" \notin DOMAIN c.arguments
    \/ c.name = "append_insight" /\ "insight" \notin DOMAIN c.arguments
    \/ c.name \in QueryTools /\ ~HasQuery(c)
UnknownTool(c) ==
    c.name \notin QueryTools
                  \cup {"list_tables", "describe_table", "append_insight"}
RejectedStatement(c) ==
    /\ HasQuery(c)
    /\ \/ c.name = "read_query" /\ ~BeginsWith(c.arguments.query, "select")
       \/ c.name = "write_query" /\ BeginsWith(c.arguments.query, "select")
       \/ c.name = "create_table"
              /\ ~BeginsWith(c.arguments.query, "create table")
NotificationFailure(c) ==
    c.name = "append_insight" /\ ~MissingArguments(c) /\ ~c.send_ok

\* C15: handle_call_tool never raises; a call with missing arguments, an
\* unknown tool, a rejected statement or a failed notification returns a text
\* that begins with "Error: ", and a call whose statement sqlite3 refuses
\* returns a text that begins with "Database error: ".
C15_FailuresAreReturned ==
    /\ [](sql_call.op = "call_tool" =>
            /\ sql_ret.exc = ""
            /\ (MissingArguments(sql_call) \/ UnknownTool(sql_call)
                   \/ RejectedStatement(sql_call)
                   \/ NotificationFailure(sql_call))
                  => StartsWith(sql_ret.text, "Error: "))
    /\ [][sql_call'.op = "call_tool" =>
            \A i \in 1..Len(sql_ret'.executed) :
                Sqlite3Execute(database, sql_ret'.executed[i]).exc # ""
                    => StartsWith(sql_ret'.text, "Database error: ")]_vars
C15_Witness ==
    /\ ToolCalled("write_query")
    /\ sql_ret.executed = <<"INSERT INTO t VALUES (1)">>
    /\ sql_ret.text = "Database error: no such table: t"

\* C16: read_query hands its statement to the database only when the
\* statement begins with SELECT after its leading whitespace, in any case;
\* otherwise it answers an error text and executes nothing; and no
\* read_query call changes the database or the insights.
C16_ReadQueryOnlyReads ==
    [][ToolCalledNext("read_query") /\ HasQuery(sql_call') =>
          /\ database' = database
          /\ insights' = insights
          /\ IF BeginsWith(sql_call'.arguments.query, "select")
             THEN sql_ret'.executed = <<sql_call'.arguments.query>>
             ELSE /\ sql_ret'.executed = <<>>
                  /\ StartsWith(sql_ret'.text, "Error: ")]_vars
C16_Witness ==
    /\ ToolCalled("read_query")
    /\ sql_ret.executed = <<"  select * from t\n">>
    /\ sql_ret.text = "[{'x': 2}]"

\* C17: write_query executes a statement only when it is an INSERT, UPDATE
\* or DELETE statement; any other statement is answered with an error text
\* and is not executed.
C17_WriteQueryOnlyWrites ==
    ToolCalled("write_query") /\ HasQuery(sql_call) =>
        IF \E keyword \in {"insert", "update", "delete"} :
               BeginsWith(sql_call.arguments.query, keyword)
        THEN sql_ret.executed = <<sql_call.arguments.query>>
        ELSE /\ sql_ret.executed = <<>>
             /\ StartsWith(sql_ret.text, "Error: ")

\* the lines of a text, without their line ends
Lines(text) ==
    LET ends == {k \in 1..Len(text) : CharAt(text, k) = "\n"}
                    \cup {Len(text) + 1}
        starts == {1} \cup {k + 1 : k \in ends \ {Len(text) + 1}}
        start(i) == CHOOSE a \in starts :
                        Cardinality({b \in starts : b < a}) = i - 1
        end(a) == CHOOSE e \in ends : e >= a /\ \A f \in ends : f >= a => e <= f
    IN  [i \in 1..Cardinality(starts) |->
            SubSeq(text, start(i), end(start(i)) - 1)]
\* the items of a memo: its lines that begin with "- ", without the "- "
MemoItems(text) ==
    LET IsItem(line) == StartsWith(line, "- ")
        items == SelectSeq(Lines(text), IsItem)
    IN  [i \in 1..Len(items) |-> SubSeq(items[i], 3, Len(items[i]))]
MemoRead ==
    sql_call.op = "read_resource" /\ sql_call.uri = "memo://insights"

\* C18: a read of memo://insights returns "No business insights have been
\* discovered yet." while nothing has been appended, and always lists exactly
\* the appended insights in append order; an append_insight call that
\* answers "Insight added to memo" has appended its insight and sent one
\* resource-updated notification for memo://insights; and an appended
\* insight is never removed.
C18_MemoTracksInsights ==
    /\ [](MemoRead =>
            /\ sql_ret.exc = ""
            /\ insights = <<>> =>
                  sql_ret.text = "No business insights have been discovered yet."
            /\ MemoItems(sql_ret.text) = insights)
    /\ [][ToolCalledNext("append_insight")
             /\ sql_ret'.text = "Insight added to memo" =>
                /\ insights' = Append(insights, sql_call'.arguments.insight)
                /\ notifications' = Append(notifications, "memo://insights")]_vars
    /\ [][/\ Len(insights') >= Len(insights)
          /\ SubSeq(insights', 1, Len(insights)) = insights
          /\ Len(notifications') >= Len(notifications)]_vars
C18_Witness ==
    /\ MemoRead
    /\ insights = <<"returns are down", "sales are up">>
    /\ MemoItems(sql_ret.text) = insights
    /\ Len(notifications) = 2

(***************************************************************************)
(* Properties of extract_issue_id (SpecSentry).                            *)
(***************************************************************************)
IssueIdCalled == issue_ret # NoIssueRet
DecimalDigits == {"0", "1", "2", "3", "4", "5", "6", "7", "8", "9"}
AllDecimalDigits(str) ==
    Len(str) > 0 /\ \A k \in 1..Len(str) : CharAt(str, k) \in DecimalDigits
IsHttpUrl(str) == \E prefix \in {"http://", "https://"} : StartsWith(str, prefix)

\* C19: extract_issue_id returns a non-empty string of decimal digits or
\* raises SentryError, and raises SentryError for the empty string and for
\* an argument that is neither an http(s) URL nor all digits.
C19_IssueIdOrSentryError ==
    IssueIdCalled =>
        /\ \/ issue_ret.exc = "" /\ AllDecimalDigits(issue_ret.value)
           \/ issue_ret.exc = "SentryError"
        /\ issue_arg = "" => issue_ret.exc = "SentryError"
        /\ ~IsHttpUrl(issue_arg) /\ ~AllDecimalDigits(issue_arg)
              => issue_ret.exc = "SentryError"

(***************************************************************************)
(* Properties of the fetch tool (SpecFetch).                               *)
(***************************************************************************)
FetchToolRuns == fetch_call.handler = "call_tool"
Requested(url) == \E i \in 1..Len(http_log) : http_log[i] = url
\* scheme://host[:port] of an http(s) URL
Origin(url) ==
    LET from == IF StartsWith(url, "https://") THEN 9 ELSE 8
        stops == {k \in from..Len(url) : CharAt(url, k) \in {"/", "?", "#"}}
    IN  IF stops = {} THEN url
        ELSE SubSeq(url, 1, (CHOOSE k \in stops : \A j \in stops : k <= j) - 1)
RobotsAnswered == robots_response # NoResponse
\* the robots.txt answer lets the agent fetch the URL
RobotsPermit(response, url) ==
    /\ response.error = ""
    /\ response.status \notin {401, 403}
    /\ \/ response.status \in 400..499
       \/ CanFetch(WithoutComments(response.robots), url,
                   DEFAULT_USER_AGENT_AUTONOMOUS)

\* C20: with ignore_robots_txt false the fetch tool requests the target URL
\* only as its second request, after robots.txt of the same scheme and host,
\* and only when the answer to that permits the fetch; when the robots.txt
\* request fails, answers 401 or 403, or disallows the URL, the tool raises
\* McpError and never requests the target; with ignore_robots_txt true it
\* requests no robots.txt; and a request once made stays made.
C20_RobotsTxtComesFirst ==
    /\ [](FetchToolRuns /\ ~ignore_robots_txt =>
            /\ Requested(fetch_call.url) =>
                  /\ http_log = <<Origin(fetch_call.url) \o "/robots.txt",
                                  fetch_call.url>>
                  /\ RobotsAnswered
                  /\ RobotsPermit(robots_response, fetch_call.url)
            /\ RobotsAnswered /\ ~RobotsPermit(robots_response, fetch_call.url)
                  => /\ fetch_ret.exc = "McpError"
                     /\ fetch_pc = "done"
                     /\ ~Requested(fetch_call.url))
    /\ [](FetchToolRuns /\ ignore_robots_txt =>
            \A i \in 1..Len(http_log) : ~EndsWith(http_log[i], "/robots.txt"))
    /\ [][fetch_pc # "done" =>
            /\ Len(http_log') >= Len(http_log)
            /\ SubSeq(http_log', 1, Len(http_log)) = http_log]_vars
C20_Witness ==
    /\ FetchToolRuns
    /\ ~ignore_robots_txt
    /\ fetch_call.url = "http://example.com:8080/public?x=1"
    /\ http_log = <<"http://example.com:8080/robots.txt", fetch_call.url>>
    /\ robots_response.status = 200
    /\ Len(robots_response.robots) = 3
    /\ fetch_ret.exc = ""
    /\ fetch_pc = "done"

(***************************************************************************)
(* serve(): list_tools and call_tool of the data generator's MCP server.   *)
(***************************************************************************)
\* the names of the tools DataGenServer.list_tools returns
ListedTools == {"generate_custom_tables", "generate_insurance_data"}

\* json.dumps of a value of the generated data; a float is shown as 0.5
JsonRepr(v) ==
    IF v.t = "str" THEN "\"" \o v.s \o "\""
    ELSE IF v.t = "int" THEN Decimal(v.n)
    ELSE IF v.t = "bool" THEN JsonBool(v.n = 1)
    ELSE "0.5"

\* the default encoder knows the value's class
JsonEncodable(v) == v.t \in {"str", "int", "float", "bool"}

\* a JSON list or dict of the items `texts`, indent=2, nested below `pad`
JsonBlock(open, close, texts, pad) ==
    IF Len(texts) = 0 THEN open \o close
    ELSE open \o "\n"
         \o Join(",\n", [i \in 1..Len(texts) |-> pad \o "  " \o texts[i]])
         \o "\n" \o pad \o close

JsonList(vals, pad) ==
    JsonBlock("[", "]", [i \in 1..Len(vals) |-> JsonRepr(vals[i])], pad)

\* a dict with the keys `keys`, in this order, and the item texts `texts`
JsonDict(keys, texts, pad) ==
    JsonBlock("{", "}",
              [i \in 1..Len(keys) |-> "\"" \o keys[i] \o "\": " \o texts[i]],
              pad)

\* the first occurrence of every element of seq, in order
FirstOccurrences(seq) ==
    LET IsFirst(i) == \A j \in 1..(i - 1) : seq[j] # seq[i]
        kept == {i \in 1..Len(seq) : IsFirst(i)}
        Nth(k) == CHOOSE i \in kept : Cardinality({j \in kept : j < i}) = k - 1
    IN  [k \in 1..Cardinality(kept) |-> seq[Nth(k)]]

\* the key order of the dict generate_synthetic_data returns: the table's
\* own ID column when the ID block made it, the other uncorrelated columns
\* of the first pass, then the correlated columns of the second pass
DataKeys(table_name, schema, generator_schemas) ==
    LET id_field == DropLast(table_name) \o "_id"
        InBlock(c) == /\ c = id_field
                      /\ table_name \in DOMAIN generator_schemas
        InFirstPass(c) == ~ InBlock(c) /\ ~ IsCorrelated(schema.spec[c])
        InSecondPass(c) == ~ InBlock(c) /\ IsCorrelated(schema.spec[c])
    IN  SelectSeq(schema.cols, InBlock)
        \o SelectSeq(schema.cols, InFirstPass)
        \o SelectSeq(schema.cols, InSecondPass)

\* json.dumps({"tables": result}, indent=2): [exc, text].  `order` lists the
\* tables as the handler generated them, which is the key order of result.
DumpTables(tables, order, table_schemas, generator_schemas) ==
    LET names == FirstOccurrences(order)
        TableText(t) ==
            LET keys == DataKeys(t, table_schemas[t], generator_schemas)
            IN  JsonDict(keys,
                         [i \in 1..Len(keys) |->
                             JsonList(tables[t][keys[i]], "      ")],
                         "    ")
    IN  IF \E t \in DOMAIN tables : \E c \in DOMAIN tables[t] :
              \E i \in 1..Len(tables[t][c]) : ~ JsonEncodable(tables[t][c][i])
        THEN [exc |-> "TypeError", text |-> ""]
        ELSE [exc |-> "",
              text |-> JsonDict(<<"tables">>,
                                <<JsonDict(names,
                                           [i \in 1..Len(names) |->
                                               TableText(names[i])],
                                           "  ")>>,
                                "")]

\* `raise McpError(f"Unknown tool: {name}")`: the exception class of the mcp
\* package takes a message in its early releases and an ErrorData object in
\* the later ones, where a str makes the constructor raise AttributeError
UnknownToolRaises == {"McpError", "AttributeError"}

\* a mutation of Dispatch: the tool keeps the name it had before the rename
Dispatch_old_name(name) ==
    IF name = "generate_tables" THEN "handle_generate_tables"
    ELSE IF name = "generate_insurance_data"
    THEN "handle_generate_insurance_data"
    ELSE ""
\* the match statement of call_tool: the handler of a tool name, "" for the
\* default case
Dispatch(name) ==
    IF name = "generate_custom_tables" THEN "handle_generate_tables"
    ELSE IF name = "generate_insurance_data"
    THEN "handle_generate_insurance_data"
    ELSE ""

\* call_tool(name, arguments) up to the handler's first loop iteration
ServeCallTool(name, arguments) ==
    /\ pc = "idle"
    /\ served = NoServed
    /\ IF Dispatch(name) = "handle_generate_tables"
       THEN /\ served' = [name |-> name, arguments |-> arguments,
                         exc |-> "none", text |-> ""]
            /\ HandleGenerateTables(Get(arguments, "tables", <<>>),
                                    arguments.rows,
                                    Get(arguments, "schemas", EmptyDict))
       ELSE IF Dispatch(name) = "handle_generate_insurance_data"
       THEN /\ served' = [name |-> name, arguments |-> arguments,
                         exc |-> "none", text |-> ""]
            /\ HandleGenerateInsuranceData(arguments.rows)
       ELSE /\ \E exc \in UnknownToolRaises :
                 served' = [name |-> name, arguments |-> arguments,
                            exc |-> exc, text |-> ""]
            /\ UNCHANGED <<generated_ids, default_schemas, handler_vars,
                           result, generated, direct_vars, time_vars,
                           tools_vars>>

\* the handler is back: its exception leaves call_tool, its result is dumped
ServeReturn ==
    /\ pc = "done"
    /\ served.name # ""
    /\ pc' = "served"
    /\ served' =
          IF returned.exc # ""
          THEN [name |-> served.name, arguments |-> served.arguments,
                exc |-> returned.exc, text |-> ""]
          ELSE [name |-> served.name, arguments |-> served.arguments] @@
               DumpTables(returned.tables, generated, schemas,
                          default_schemas)
    /\ UNCHANGED <<generated_ids, default_schemas, pending, rows_arg, schemas,
                   result, request, returned, generated, direct_vars,
                   time_vars, tools_vars>>

\* the client has the response: the locals of the call are gone
ServeTaken ==
    /\ served.exc # "none"
    /\ pc \in {"idle", "served"}
    /\ served' = NoServed
    /\ pc' = "idle"
    /\ pending' = <<>>
    /\ rows_arg' = 0
    /\ schemas' = EmptyDict
    /\ result' = EmptyDict
    /\ request' = NoRequest
    /\ returned' = NoReturn
    /\ generated' = <<>>
    /\ UNCHANGED <<generated_ids, default_schemas, direct_vars, time_vars,
                   tools_vars>>

\* the names a client may call: the listed ones, the name the first tool had
\* before it was renamed, and one no tool ever had
ServeNames == ListedTools \cup {"generate_tables", "unknown_tool"}
\* the `tables` arrays a client sends: in and against the dependency order,
\* with tables of its own, with a repeated name, with a table nobody knows
ServeTableLists ==
    { <<>>, <<"customers">>, <<"claims">>, <<"policies", "customers">>,
      <<"claims", "policies", "customers">>,
      <<"orders", "claims", "customers">>,
      <<"items", "orders", "customers">>,
      <<"orders", "customers", "orders">>,
      <<"customers", "products">> }
\* the schemas it sends for its own tables
ServeSchemas == [orders |-> OrdersSchema, items |-> OrdersSchema]
\* the row counts it sends: one the handlers refuse and one they accept
ServeRows == {0, 1}
ServeArguments ==
    {[tables |-> tables, rows |-> rows, schemas |-> ServeSchemas] :
        tables \in ServeTableLists, rows \in ServeRows}
    \cup {[tables |-> <<"customers">>, rows |-> rows] : rows \in ServeRows}
    \cup {[rows |-> rows] : rows \in ServeRows}

NextServe ==
    \/ /\ pc = "idle"
       /\ served = NoServed
       /\ \E name \in ServeNames, arguments \in ServeArguments :
             ServeCallTool(name, arguments)
    \/ GenerateNextTable
    \/ ServeReturn
    \/ ServeTaken

SpecServe == InitServer /\ [][NextServe]_vars

(***************************************************************************)
(* Properties of call_tool of the data generator (SpecServe).              *)
(***************************************************************************)
\* call_tool has returned or raised
Served == served.exc # "none"
\* the handler that ran for the call in progress, "" if none did
HandlerRun ==
    IF request.tool = "generate_custom_tables" THEN "handle_generate_tables"
    ELSE IF request.tool = "generate_insurance_data"
    THEN "handle_generate_insurance_data"
    ELSE ""
UnknownToolRaised == Served /\ pc = "idle"

\* C21: every name list_tools returns reaches its handler
\* (generate_custom_tables runs handle_generate_tables,
\* generate_insurance_data runs handle_generate_insurance_data), a result
\* the handler returns comes back as the text of {"tables": result}, and
\* call_tool raises its unknown-tool error only for names that list_tools
\* does not return.
C21_ListedToolsAreHandled ==
    /\ served.name = "generate_custom_tables"
          => HandlerRun = "handle_generate_tables"
    /\ served.name = "generate_insurance_data"
          => HandlerRun = "handle_generate_insurance_data"
    /\ served.name \in ListedTools => ~ UnknownToolRaised
    /\ (served.name # "" /\ served.name \notin ListedTools)
          => UnknownToolRaised /\ HandlerRun = ""
    /\ (pc = "served" /\ returned.exc = "")
          => /\ served.exc = ""
             /\ SubSeq(served.text, 1, 14) = "{\n  \"tables\": "
             /\ \A t \in DOMAIN returned.tables :
                   /\ Contains(served.text, "\n    \"" \o t \o "\": {")
                   /\ \A c \in DOMAIN returned.tables[t] :
                         \A i \in 1..Len(returned.tables[t][c]) :
                            Contains(served.text,
                                     JsonRepr(returned.tables[t][c][i]))

C21_Witness ==
    /\ pc = "served"
    /\ served.name = "generate_custom_tables"
    /\ served.exc = ""
    /\ DOMAIN returned.tables = {"customers", "claims", "orders"}

(***************************************************************************)
(* The notes server (sqlite/server.py): McpServer keeps notes in the table *)
(* notes of notes.db and offers one tool that adds a note.                 *)
(***************************************************************************)
MaxListChanged == 2

\* the names of the tools handle_list_tools returns
ListedNoteTools == {"add-note-to-local-db"}

\* McpServer._add_note: INSERT OR REPLACE INTO notes (name, content)
AddNote(table, note_name, content) == Put(table, note_name, content)

NoteRaise(message) ==
    [exc |-> "ValueError", message |-> message, text |-> ""]

\* `not x` for the value of arguments.get(key): None or an empty string
Falsy(arguments, key) == Get(arguments.dict, key, "") = ""

\* McpServer.handle_call_tool(name, arguments); arguments is [none, dict],
\* none for a call without arguments.  The session is taken to be open, so
\* that send_resource_list_changed() returns.
NotesCallTool(name, arguments) ==
    /\ note_call' = [name |-> name, arguments |-> arguments,
                     notes |-> notes, list_changed |-> list_changed]
    /\ IF name # "add-note"
       THEN /\ note_ret' = NoteRaise("Unknown tool: " \o name)
            /\ UNCHANGED <<notes, list_changed>>
       ELSE IF arguments.none \/ DOMAIN arguments.dict = {}
       THEN /\ note_ret' = NoteRaise("Missing arguments")
            /\ UNCHANGED <<notes, list_changed>>
       ELSE IF Falsy(arguments, "name") \/ Falsy(arguments, "content")
       THEN /\ note_ret' = NoteRaise("Missing name or content")
            /\ UNCHANGED <<notes, list_changed>>
       ELSE /\ notes' = AddNote(notes, arguments.dict["name"],
                                arguments.dict["content"])
            /\ list_changed' = list_changed + 1
            /\ note_ret' =
                  [exc |-> "", message |-> "",
                   text |-> "Added note '" \o arguments.dict["name"]
                            \o "' with content: "
                            \o arguments.dict["content"]]
    /\ UNCHANGED <<datagen_vars, time_vars, unique_id_vars,
                   git_vars, sqlite_vars, sentry_vars, fetch_vars>>

\* the client has the result or the error
NotesCallToolDone ==
    /\ note_ret # NoNoteRet
    /\ note_call' = NoNoteCall
    /\ note_ret' = NoNoteRet
    /\ UNCHANGED <<notes, list_changed>>
    /\ UNCHANGED <<datagen_vars, time_vars, unique_id_vars,
                   git_vars, sqlite_vars, sentry_vars, fetch_vars>>

\* the tool names a client may send: the listed one, the one the handler
\* compares with, and one of neither
NoteToolNames == ListedNoteTools \cup {"add-note", "get-note"}
NoteNames == {"", "example", "todo"}
NoteContents == {"", "buy milk", "call home"}
NoteArguments ==
    {[none |-> TRUE, dict |-> EmptyDict], [none |-> FALSE, dict |-> EmptyDict]}
    \cup {[none |-> FALSE, dict |-> [name |-> n]] : n \in NoteNames}
    \cup {[none |-> FALSE, dict |-> [content |-> c]] : c \in NoteContents}
    \cup {[none |-> FALSE, dict |-> [name |-> n, content |-> c]] :
             n \in NoteNames, c \in NoteContents}

InitNotes == InitTime
NextNotes ==
    \/ /\ note_ret = NoNoteRet
       /\ list_changed < MaxListChanged
       /\ \E name \in NoteToolNames, arguments \in NoteArguments :
             NotesCallTool(name, arguments)
    \/ NotesCallToolDone
SpecNotes == InitNotes /\ [][NextNotes]_vars

(***************************************************************************)
(* Properties of the notes server (SpecNotes).                             *)
(***************************************************************************)
NoteToolCalled == note_ret # NoNoteRet
\* the call names a listed tool and has a non-empty name and content
ListedNoteCall ==
    /\ NoteToolCalled
    /\ note_call.name \in ListedNoteTools
    /\ ~ note_call.arguments.none
    /\ Get(note_call.arguments.dict, "name", "") # ""
    /\ Get(note_call.arguments.dict, "content", "") # ""

\* C22: a call of the tool name that list_tools returns, with a non-empty
\* name and content, is accepted: the note is stored under its name, in the
\* place of any note of that name, and one resource-list-changed
\* notification is sent.
C22_ListedNoteToolIsAccepted ==
    ListedNoteCall =>
        /\ note_ret.exc = ""
        /\ notes = AddNote(note_call.notes, note_call.arguments.dict["name"],
                           note_call.arguments.dict["content"])
        /\ list_changed = note_call.list_changed + 1

(***************************************************************************)
(* Properties of extract_issue_id for URLs with further path segments      *)
(* (SpecSentry).                                                           *)
(***************************************************************************)
\* the segments of the path of the URL the call was given
IssuePathSegments == Split(StripChar(UrlParse(issue_arg).path, "/"), "/")
\* the argument is an http(s) URL of a sentry.io host whose path is
\* /issues/<id>, <id> decimal digits, with or without segments after it
IsIssueUrl ==
    /\ IsHttpUrl(issue_arg)
    /\ UrlParse(issue_arg).exc = ""
    /\ EndsWith(Hostname(UrlParse(issue_arg).netloc), ".sentry.io")
    /\ Len(IssuePathSegments) >= 2
    /\ IssuePathSegments[1] = "issues"
    /\ AllDecimalDigits(IssuePathSegments[2])

\* C26: for a Sentry issue URL whose path is /issues/<id>, with or without
\* further segments after <id>, extract_issue_id returns <id>, the segment
\* right after "issues".
C26_IssueIdFollowsIssues ==
    (IssueIdCalled /\ IsIssueUrl) =>
        /\ issue_ret.exc = ""
        /\ issue_ret.value = IssuePathSegments[2]

(***************************************************************************)
(* Properties of the claims table in generate_custom_tables results        *)
(* (SpecServer).                                                           *)
(***************************************************************************)
\* generate_custom_tables returned a claims table made from the server's
\* default schema
ClaimsReturned ==
    /\ pc = "done"
    /\ request.tool = "generate_custom_tables"
    /\ returned.exc = ""
    /\ "claims" \in DOMAIN returned.tables
    /\ schemas["claims"] = ServerDefaultSchemas["claims"]

\* v has the format of policies.policy_id: the prefix and a number
IsPolicyId(v) == v.t = "str" /\ StartsWith(v.s, "POL-2024-")

\* C24: in every generate_custom_tables result that holds the claims table
\* of the default schema, whichever other tables were requested, every
\* claims.policy_id is a string that begins with "POL-2024-".
C24_ClaimsPolicyIdsHavePrefix ==
    ClaimsReturned =>
        \A v \in Column(returned.tables, "claims", "policy_id") : IsPolicyId(v)

(***************************************************************************)
(* Properties of the order of generation in handle_generate_tables        *)
(* (SpecServe).                                                            *)
(***************************************************************************)
\* the tables of the generate_custom_tables call in progress, as listed
ListedTables == Get(served.arguments, "tables", <<>>)
\* customers, then policies, then claims, then every other table in the
\* order it was listed
DependencyOrder(tables) ==
    LET IsCustomers(t) == t = "customers"
        IsPolicies(t) == t = "policies"
        IsClaims(t) == t = "claims"
        IsOther(t) == t \notin {"customers", "policies", "claims"}
    IN  SelectSeq(tables, IsCustomers) \o SelectSeq(tables, IsPolicies)
        \o SelectSeq(tables, IsClaims) \o SelectSeq(tables, IsOther)
IsPrefix(short, long) ==
    Len(short) <= Len(long) /\ SubSeq(long, 1, Len(short)) = short
CustomTablesCall == served.name = "generate_custom_tables"

\* the tables generated so far, and those still to come, follow the order
GeneratedInDependencyOrder ==
    CustomTablesCall =>
        /\ IsPrefix(generated, DependencyOrder(ListedTables))
        /\ pc = "tables"
              => generated \o pending = DependencyOrder(ListedTables)
        /\ (pc \in {"done", "served"} /\ returned.exc = "")
              => generated = DependencyOrder(ListedTables)

\* the step that enters the loop leaves no ID recorded; a step of the loop
\* drops no table from the recorded IDs and keeps the IDs of every table
\* other than the one it generates
ClearedOnceBeforeFirstTable ==
    /\ (/\ pc = "idle"
        /\ pc' = "tables"
        /\ served'.name = "generate_custom_tables")
          => generated_ids' = EmptyDict
    /\ (pc = "tables" /\ CustomTablesCall)
          => /\ DOMAIN generated_ids \subseteq DOMAIN generated_ids'
             /\ \A t \in DOMAIN generated_ids :
                   t # Head(pending)
                      => generated_ids[t] \subseteq generated_ids'[t]

\* C23: handle_generate_tables generates the requested tables in dependency
\* order whatever their order in `tables` (customers, policies, claims,
\* then the other tables as listed), and it clears the recorded IDs once,
\* before the first table is generated, and not between tables.
C23_TablesInDependencyOrder ==
    [] GeneratedInDependencyOrder /\ [][ClearedOnceBeforeFirstTable]_vars

\* three tables listed against the dependency order have been generated
C23_Witness ==
    /\ CustomTablesCall
    /\ ListedTables = <<"items", "orders", "customers">>
    /\ pc = "served"
    /\ returned.exc = ""
    /\ generated = <<"customers", "items", "orders">>
    /\ generated_ids # EmptyDict

(***************************************************************************)
(* _generate_unique_id step by step: one step per pass of its while loop.  *)
(***************************************************************************)
UidSpan == 2

\* a mutation of IdIsUnique: every drawn value counts as new
IdIsUnique_always(ids, table_name, id_val) == TRUE
\* `if id_val not in self._generated_ids[table_name]`
IdIsUnique(ids, table_name, id_val) == id_val \notin ids[table_name]

\* the call begins: the locals are set, nothing is drawn yet
UniqueIdEnter(table_name, spec) ==
    /\ uid_call = NoUidCall
    /\ uid_ret = NoUidRet
    /\ uid_call' = [table |-> table_name, spec |-> spec, ids |-> generated_ids]
    /\ attempts' = 0
    /\ draws' = 0
    /\ UNCHANGED <<uid_ret, datagen_vars, time_vars, notes_vars, git_vars,
                   sqlite_vars, sentry_vars, fetch_vars>>

\* the call raises ValueError
UniqueIdRaise ==
    /\ uid_ret' = [exc |-> "ValueError", val |-> IntVal(0)]
    /\ UNCHANGED <<uid_call, attempts, generated_ids>>

\* the test of the while loop and, when it holds, one pass of its body; when
\* it fails, the raise after the loop
UniqueIdAttempt ==
    /\ uid_call # NoUidCall
    /\ uid_ret = NoUidRet
    /\ IF ~ (attempts < max_attempts)
       THEN UniqueIdRaise /\ UNCHANGED draws
       ELSE IF Get(uid_call.spec, "type", "integer") \notin {"integer", "int"}
       THEN UniqueIdRaise /\ UNCHANGED draws
       ELSE IF DrawnIds(uid_call.spec) = {}
       THEN \* randint raises ValueError: low >= high
            UniqueIdRaise /\ draws' = draws + 1
       ELSE \E id_val \in DrawnIds(uid_call.spec) :
               LET ids1 == IF uid_call.table \in DOMAIN generated_ids
                           THEN generated_ids
                           ELSE Put(generated_ids, uid_call.table, {})
               IN  /\ draws' = draws + 1
                   /\ IF IdIsUnique(ids1, uid_call.table, id_val)
                      THEN /\ generated_ids' =
                                 Put(ids1, uid_call.table,
                                     ids1[uid_call.table] \cup {id_val})
                           /\ uid_ret' = [exc |-> "", val |-> id_val]
                           /\ UNCHANGED <<uid_call, attempts>>
                      ELSE /\ generated_ids' = ids1
                           /\ attempts' = attempts + 1
                           /\ UNCHANGED <<uid_call, uid_ret>>
    /\ UNCHANGED <<default_schemas, handler_vars, result, generated,
                   direct_vars, served, time_vars, notes_vars, git_vars,
                   sqlite_vars, sentry_vars, fetch_vars>>

\* the caller has the ID or the exception
UniqueIdDone ==
    /\ uid_ret # NoUidRet
    /\ uid_call' = NoUidCall
    /\ attempts' = 0
    /\ draws' = 0
    /\ uid_ret' = NoUidRet
    /\ UNCHANGED <<datagen_vars, time_vars, notes_vars, git_vars,
                   sqlite_vars, sentry_vars, fetch_vars>>

\* the calls tried: a range of UidSpan values, a one-value range with a
\* prefix, an empty range and a type the function does not support, for one
\* table, and the range of UidSpan values for a second table
UidCalls ==
    { [table |-> "customers",
       spec |-> [type |-> "integer", min |-> 1, max |-> UidSpan]],
      [table |-> "customers",
       spec |-> [type |-> "int", min |-> 1, max |-> 1, prefix |-> "ID-"]],
      [table |-> "customers",
       spec |-> [type |-> "integer", min |-> 2, max |-> 0]],
      [table |-> "customers",
       spec |-> [type |-> "string", min |-> 1, max |-> UidSpan]],
      [table |-> "orders",
       spec |-> [type |-> "integer", min |-> 1, max |-> UidSpan]] }

InitUniqueId == InitTime
NextUniqueId ==
    \/ /\ uid_call = NoUidCall
       /\ \E c \in UidCalls : UniqueIdEnter(c.table, c.spec)
    \/ UniqueIdAttempt
    \/ UniqueIdDone
SpecUniqueId == InitUniqueId /\ [][NextUniqueId]_vars
\* a call that has begun keeps running: the interpreter does not stop
\* between two passes of the loop
SpecUniqueIdRuns == SpecUniqueId /\ WF_vars(UniqueIdAttempt)

(***************************************************************************)
(* Properties of _generate_unique_id (SpecUniqueIdRuns).                   *)
(***************************************************************************)
UniqueIdRunning == uid_call # NoUidCall /\ uid_ret = NoUidRet
UniqueIdFinished == uid_ret # NoUidRet
\* the IDs recorded for the table when the call began
RecordedBefore == Get(uid_call.ids, uid_call.table, {})
\* the IDs of the range [min, max] of the call, with its prefix
IdsOfRange ==
    {MakeId(Get(uid_call.spec, "prefix", ""), k) :
        k \in uid_call.spec.min .. uid_call.spec.max}

UniqueIdOutcome ==
    /\ draws <= 100
    /\ UniqueIdFinished =>
          \/ /\ uid_ret.exc = ""
             /\ uid_ret.val \notin RecordedBefore
             /\ uid_ret.val \in IdsOfRange
             /\ generated_ids =
                   Put(uid_call.ids, uid_call.table,
                       RecordedBefore \cup {uid_ret.val})
          \/ /\ uid_ret.exc = "ValueError"
             /\ generated_ids = uid_call.ids
    /\ (UniqueIdFinished /\ IdsOfRange \subseteq RecordedBefore)
          => uid_ret.exc = "ValueError"

\* C25: _generate_unique_id ends after at most 100 draws; it returns an ID
\* that was not recorded for the table before the call, and records it, or
\* raises ValueError and records nothing; when every value of [min, max] is
\* recorded for the table already, it raises.
C25_UniqueIdTerminates ==
    [] UniqueIdOutcome /\ (UniqueIdRunning ~> UniqueIdFinished)

\* the call gave up after 100 draws of recorded IDs
C25_Witness ==
    /\ uid_ret.exc = "ValueError"
    /\ draws = 100
    /\ attempts = 100
    /\ IdsOfRange # {}
    /\ IdsOfRange \subseteq RecordedBefore

====
